---- MODULE Spec2Model ----
(***************************************************************************)
(* Record-linkage pipeline of string-similarity-algorithms:                *)
(*   preprocess -> ALGORITHM.prep_ -> ALGORITHM.perform_matching ->        *)
(*   ALGORITHM.export_results                                              *)
(* for the five algorithm modules under src/scripts/algorithms.            *)
(*                                                                         *)
(* Conventions of the model                                                *)
(*  - a text is a sequence of one-character strings;                       *)
(*  - Python's None is None == << >>, a present value v is Some(v) == <<v>>;*)
(*  - positions are 1-based: model position k is Python position k-1;      *)
(*  - a float is a record [k, n, d]: k = "fin" is the rational n/d (d > 0),*)
(*    "nan" and "inf" are the IEEE special values, "max" is                *)
(*    +-sys.float_info.max, the value numpy.nan_to_num gives +-inf.        *)
(***************************************************************************)
EXTENDS Integers, Sequences, FiniteSets, TLC

VARIABLES
    ALGORITHM,              \* main.py: the algorithm module in use
    pc,                     \* position of the main script
    data,                   \* the reference table handed to preprocess
    match,                  \* the query table handed to preprocess
    match_norm_series,      \* module-level working data set by prep_
    match_original_series,
    data_norm_series,
    data_original_series,
    data_norm_array_lower,
    vectorizer,
    data_vectors,
    match_vectors,          \* dice, ngram: None until a prep_ sets it, then Some(matrix)
    indices,
    futures,                \* perform_matching: state of each submitted task
    results,                \* perform_matching: the local results list
    result_idx,             \* history: futures[future] of each appended result
    printed,                \* indices reported by "Exception occurred for index"
    task_printed,           \* indices reported by "Error in calculate_best_match at index"
    raising,                \* the tasks that printed that line and have not raised again yet
    results_df,             \* the table returned by export_results
    validated,              \* evaluation.py: what load_validated_data gives, per name
    eval_pc,                \* position of the evaluation script
    dataset_name,           \* position of "for dataset_name in datasets"
    algo,                   \* position of "for algo in THRESHOLDS"
    DATA,                   \* the table under evaluation
    eval_df,                \* the metrics table of the dataset, a column per algorithm
    eval_results,           \* the metrics tables handed to export_eval_data
    confusion_matrices,     \* the confusion matrices written, per algorithm and dataset
    eval_printed,           \* the messages the evaluation script printed
    directories,            \* the directories the evaluation script writes to, as it finds them
    frames,                 \* the DataFrame objects of a run with its tables, by identity
    supplied,               \* history: the two tables as they were handed to the run
    prep_calls,             \* history: how each call of ALGORITHM.prep_ ended
    await_validation        \* the file <date>_<ALGO>_NEED_VALIDATION.csv of the run: None or Some(file)

matching_vars ==
    <<ALGORITHM, pc, data, match, match_norm_series, match_original_series,
      data_norm_series, data_original_series, data_norm_array_lower,
      vectorizer, data_vectors, match_vectors, indices, futures, results,
      result_idx, printed, task_printed, raising, results_df>>
evaluation_vars ==
    <<validated, eval_pc, dataset_name, algo, DATA, eval_df, eval_results,
      confusion_matrices, eval_printed, directories>>
frame_vars == <<frames, supplied>>
history_vars == <<prep_calls>>
file_vars == <<await_validation>>
vars == <<matching_vars, evaluation_vars, frame_vars, history_vars, file_vars>>

\* ------------------------------------------------------------------ bounds

\* most rows of the reference table
MaxData == 2
\* most rows of the query table
MaxMatch == 2
\* most rows of the reference table and of the query table in the scenario runs
MaxScenarioData == 2
MaxScenarioMatch == 1
\* most rows of the validated tables STREET and FULLNAME together
MaxEvalRows == 3
\* most rows of the reference table and of the query table followed as objects
MaxFrameData == 1
MaxFrameMatch == 2
\* most rows of the reference table and of the query table of repeated runs,
\* and most calls of prep_
MaxRunData == 1
MaxRunMatch == 2
MaxPrepCalls == 2

\* ------------------------------------------------------------- basic values

None == << >>
Some(v) == <<v>>
Val(o) == o[1]

Algorithms == {"levenshtein", "jaccard", "dice", "ngram", "regex"}

\* cell values of the compared column: a missing value (NaN) or a text
NaN == None
RawTexts ==
    { <<"A", ".">>, <<"a", "a", "a">>, <<"a", "a", "b">> }
Cells == {NaN} \cup {Some(t) : t \in RawTexts}

RECURSIVE SeqsUpTo(_, _)
SeqsUpTo(S, n) ==
    IF n = 0 THEN { << >> }
    ELSE LET shorter == SeqsUpTo(S, n - 1)
         IN  shorter \cup { Append(s, x) : s \in {t \in shorter : Len(t) = n - 1}, x \in S }

Max(a, b) == IF a >= b THEN a ELSE b
Min(a, b) == IF a <= b THEN a ELSE b

RECURSIVE SumF(_, _)
SumF(f, S) ==
    IF S = {} THEN 0
    ELSE LET x == CHOOSE y \in S : TRUE
         IN  f[x] + SumF(f, S \ {x})

\* ------------------------------------------------------------------ floats

Fin(n, d) == [k |-> "fin", n |-> n, d |-> d]
FNaN == [k |-> "nan", n |-> 0, d |-> 1]
FInf(sign) == [k |-> "inf", n |-> sign, d |-> 1]
FMax(sign) == [k |-> "max", n |-> sign, d |-> 1]

\* numpy true division of two integers under errstate(divide="ignore", invalid="ignore")
TrueDivide(n, d) ==
    IF d = 0
    THEN (IF n = 0 THEN FNaN ELSE IF n > 0 THEN FInf(1) ELSE FInf(-1))
    ELSE IF d > 0 THEN Fin(n, d) ELSE Fin(-n, -d)

\* numpy.nan_to_num with its defaults
nan_to_num(x) ==
    IF x.k = "nan" THEN Fin(0, 1)
    ELSE IF x.k = "inf" THEN FMax(x.n)
    ELSE x

\* a < b on floats that are not NaN
FLt(a, b) ==
    LET big(x) == x.k \in {"max", "inf"}
    IN  IF big(a) /\ a.n = 1 THEN FALSE
        ELSE IF big(a) THEN ~(big(b) /\ b.n = -1)
        ELSE IF big(b) THEN b.n = 1
        ELSE a.n * b.d < b.n * a.d
FGe(a, b) == ~FLt(a, b)
FEq(a, b) == ~FLt(a, b) /\ ~FLt(b, a)

\* ----------------------------------------------------------- normalization

IsSpace(c) == c = " "
\* str.lower() on the letters of the model: the upper-case letters and their
\* lower-case forms, position by position ("uml_U" is upper-case u-umlaut)
UpperLetters ==
    <<"A", "B", "C", "D", "E", "F", "G", "H", "I", "J", "K", "L", "M", "N", "O", "P",
      "Q", "R", "S", "T", "U", "V", "W", "X", "Y", "Z", "uml_A", "uml_O", "uml_U">>
LowerLetters ==
    <<"a", "b", "c", "d", "e", "f", "g", "h", "i", "j", "k", "l", "m", "n", "o", "p",
      "q", "r", "s", "t", "u", "v", "w", "x", "y", "z", "uml_a", "uml_o", "uml_u">>
Digits == {"0", "1", "2", "3", "4", "5", "6", "7", "8", "9"}
\* characters the regex class \w matches, among those of the model
WordChars ==
    {UpperLetters[i] : i \in 1..Len(UpperLetters)}
        \cup {LowerLetters[i] : i \in 1..Len(LowerLetters)}
        \cup Digits \cup {"_", "eszett"}
lower_char(c) ==
    IF \E i \in 1..Len(UpperLetters) : UpperLetters[i] = c
    THEN LowerLetters[CHOOSE i \in 1..Len(UpperLetters) : UpperLetters[i] = c]
    ELSE c
lower(s) == [i \in 1..Len(s) |-> lower_char(s[i])]

IsPrefix(p, s) == Len(p) <= Len(s) /\ SubSeq(s, 1, Len(p)) = p

\* re.sub(pat, rep, s) for a pattern without metacharacters
RECURSIVE re_sub(_, _, _)
re_sub(pat, rep, s) ==
    IF s = << >> THEN << >>
    ELSE IF IsPrefix(pat, s) THEN rep \o re_sub(pat, rep, SubSeq(s, Len(pat) + 1, Len(s)))
    ELSE <<Head(s)>> \o re_sub(pat, rep, Tail(s))

\* config/translations.py; "uml_a", "uml_o", "uml_u" and "eszett" are the single
\* characters a-umlaut, o-umlaut, u-umlaut and sharp s ("uml_U" is upper-case u-umlaut)
ABBREVIATION_TRANSLATION ==
    << << <<"s", "t", "r", "a", "eszett", "e">>, <<"s", "t", "r", ".">> >>,
       << <<"S", "t", "r", "a", "eszett", "e">>, <<"S", "t", "r", ".">> >> >>
MUTATION_TRANSLATION ==
    << << <<"uml_a">>, <<"a", "e">> >>,
       << <<"uml_o">>, <<"o", "e">> >>,
       << <<"uml_u">>, <<"u", "e">> >>,
       << <<"eszett">>, <<"s", "s">> >> >>

RECURSIVE lstrip(_)
lstrip(s) == IF s # << >> /\ IsSpace(Head(s)) THEN lstrip(Tail(s)) ELSE s
RECURSIVE rstrip(_)
rstrip(s) ==
    IF s # << >> /\ IsSpace(s[Len(s)]) THEN rstrip(SubSeq(s, 1, Len(s) - 1)) ELSE s
strip(s) == rstrip(lstrip(s))

\* re.sub(r"[^\w\s]", "", s)
remove_special(s) == SelectSeq(s, LAMBDA c : c \in WordChars \/ IsSpace(c))

RECURSIVE reduce_sub(_, _)
reduce_sub(replacements, s) ==
    IF replacements = << >> THEN s
    ELSE reduce_sub(Tail(replacements),
                    re_sub(Head(replacements)[1], Head(replacements)[2], s))

normalize_text(s1) ==
    LET replacements == ABBREVIATION_TRANSLATION \o MUTATION_TRANSLATION
        s2 == reduce_sub(replacements, s1)
    IN  remove_special(strip(lower(s2)))

\* preprocess(df, column): <<df_copy, normalized_series, original_series>>;
\* the copy has the index 0..n-1 (here 1..n) and "" for every missing value
preprocess(df) ==
    LET df_copy == [i \in 1..Len(df) |-> IF df[i] = NaN THEN << >> ELSE Val(df[i])]
    IN  [df |-> df_copy,
         norm |-> [i \in 1..Len(df_copy) |-> normalize_text(df_copy[i])],
         orig |-> df_copy]

\* ------------------------------------------------- sklearn CountVectorizer

\* maximal runs of word characters of a text, in order
RECURSIVE word_runs(_, _)
word_runs(s, cur) ==
    IF s = << >> THEN (IF cur = << >> THEN << >> ELSE <<cur>>)
    ELSE IF Head(s) \in WordChars THEN word_runs(Tail(s), Append(cur, Head(s)))
    ELSE (IF cur = << >> THEN << >> ELSE <<cur>>) \o word_runs(Tail(s), << >>)

\* analyzer="word" with token_pattern (?u)\b\w\w+\b on the lower-cased text
word_analyzer(doc) == SelectSeq(word_runs(lower(doc), << >>), LAMBDA t : Len(t) >= 2)

\* re.sub(r"\s\s+", " ", s)
RECURSIVE white_spaces_sub(_)
white_spaces_sub(s) ==
    IF Len(s) < 2 THEN s
    ELSE IF IsSpace(s[1]) /\ IsSpace(s[2]) THEN white_spaces_sub(<<" ">> \o lstrip(s))
    ELSE <<Head(s)>> \o white_spaces_sub(Tail(s))

\* analyzer="char", ngram_range=(n, n): every window of n characters
char_analyzer(doc, n) ==
    LET text == white_spaces_sub(lower(doc))
    IN  [i \in 1..Max(Len(text) - n + 1, 0) |-> SubSeq(text, i, i + n - 1)]

analyze(kind, doc) == IF kind = "word" THEN word_analyzer(doc) ELSE char_analyzer(doc, 2)

\* CountVectorizer.fit: the vocabulary, or ValueError("empty vocabulary") as None
fit(kind, docs) ==
    LET vocabulary == UNION { {analyze(kind, docs[i])[j] : j \in 1..Len(analyze(kind, docs[i]))}
                              : i \in 1..Len(docs) }
    IN  IF vocabulary = {} THEN None ELSE Some(vocabulary)

\* CountVectorizer.transform of one document: its row of the count matrix
transform(kind, binary, vocabulary, doc) ==
    LET feats == analyze(kind, doc)
        count(f) == Cardinality({j \in 1..Len(feats) : feats[j] = f})
    IN  [f \in vocabulary |-> IF binary THEN Min(count(f), 1) ELSE count(f)]

transform_all(kind, binary, vocabulary, docs) ==
    [i \in 1..Len(docs) |-> transform(kind, binary, vocabulary, docs[i])]

\* scipy sparse rows: sum(), nnz and the sum of multiply()
vec_sum(v) == SumF(v, DOMAIN v)
nnz(v) == Cardinality({f \in DOMAIN v : v[f] # 0})
multiply_sum(u, v) == SumF([f \in DOMAIN u |-> u[f] * v[f]], DOMAIN u)

\* ---------------------------------------------------------- numpy helpers

\* the last position of the largest value
argmax_last(scores) ==
    CHOOSE i \in 1..Len(scores) :
        /\ \A j \in 1..Len(scores) : FGe(scores[i], scores[j])
        /\ \A j \in (i + 1)..Len(scores) : FLt(scores[j], scores[i])
\* numpy.argmax: the first position of the largest value (scores not empty)
argmax(scores) ==
    CHOOSE i \in 1..Len(scores) :
        /\ \A j \in 1..Len(scores) : FGe(scores[i], scores[j])
        /\ \A j \in 1..(i - 1) : FLt(scores[j], scores[i])

\* ------------------------------------------------------ task outcomes

Returned(rec) == <<"result", rec>>
Raised(exc) == <<"exception", exc>>
\* a record that carries the score 0.0 where the task found no match
MatchRecord_zero_score(m, best, score) ==
    [MATCH |-> m, BEST_FOUND_MATCH |-> best, TRUE_MATCH |-> None,
     BEST_MATCH |-> IF score = None THEN Some(Fin(0, 1)) ELSE score]

MatchRecord(m, best, score) ==
    [MATCH |-> m, BEST_FOUND_MATCH |-> best, TRUE_MATCH |-> None, BEST_MATCH |-> score]

\* --------------------------------------------------------------- levenshtein

Min3(a, b, c) == Min(a, Min(b, c))
\* one row of the edit-distance table: row holds its first j cells, prev is the
\* row of the prefix of s one character shorter, c the character of s added
RECURSIVE levenshtein_row(_, _, _, _)
levenshtein_row(prev, c, t, row) ==
    LET j == Len(row)
    IN  IF j = Len(t) + 1 THEN row
        ELSE levenshtein_row(prev, c, t,
                Append(row, Min3(prev[j + 1] + 1, row[j] + 1,
                                 prev[j] + (IF c = t[j] THEN 0 ELSE 1))))
RECURSIVE levenshtein_rows(_, _, _)
levenshtein_rows(prev, s, t) ==
    IF s = << >> THEN prev
    ELSE levenshtein_rows(levenshtein_row(prev, Head(s), t, <<prev[1] + 1>>), Tail(s), t)
\* the uniform edit distance: insertions, deletions and substitutions cost 1
LevenshteinDistance(s, t) ==
    levenshtein_rows([j \in 1..(Len(t) + 1) |-> j - 1], s, t)[Len(t) + 1]

\* a similarity normalized by the length of the first text, not the longer one
similarity_over_first_length(s, t) ==
    IF Len(s) = 0 THEN Fin(1, 1)
    ELSE Fin(Len(s) - LevenshteinDistance(s, t), Len(s))
\* rapidfuzz Levenshtein.normalized_similarity
normalized_similarity(s, t) ==
    LET maximum == Max(Len(s), Len(t))
    IN  IF maximum = 0 THEN Fin(1, 1)
        ELSE Fin(maximum - LevenshteinDistance(s, t), maximum)

\* rapidfuzz process.extractOne(query, choices, scorer=normalized_similarity,
\* processor=None): None for no choices, else <<score, key>> of the first choice
\* whose score no later choice exceeds
levenshtein_scores(query, choices) ==
    [i \in 1..Len(choices) |-> normalized_similarity(query, choices[i])]
extractOne(query, choices) ==
    IF choices = << >> THEN None
    ELSE LET scores == levenshtein_scores(query, choices)
             \* a later choice replaces the result only with a strictly higher score
             key == CHOOSE i \in 1..Len(scores) :
                        /\ \A j \in 1..Len(scores) : FGe(scores[i], scores[j])
                        /\ \A j \in 1..(i - 1) : FLt(scores[j], scores[i])
         IN  Some(<<scores[key], key>>)

levenshtein_calculate_best_match(idx) ==
    LET match_original == match_original_series[idx]
        s1_clean == strip(match_norm_series[idx])
        best_match == extractOne(s1_clean, data_norm_series)
    IN  IF s1_clean = << >> THEN Returned(MatchRecord(match_original, None, None))
        ELSE IF best_match # None
        THEN Returned(MatchRecord(match_original,
                                  Some(data_original_series[Val(best_match)[2]]),
                                  Some(Val(best_match)[1])))
        ELSE Returned(MatchRecord(match_original, None, None))

\* ------------------------------------------------------------------ jaccard

\* union = data_vectors.sum(axis=1) + match_vector.sum() - intersection, one row
jaccard_union(match_vector, vector) ==
    vec_sum(vector) + vec_sum(match_vector) - multiply_sum(vector, match_vector)

jaccard_similarities(match_vector) ==
    [r \in 1..Len(data_vectors) |->
        LET intersection == multiply_sum(data_vectors[r], match_vector)
            union == jaccard_union(match_vector, data_vectors[r])
        IN  nan_to_num(TrueDivide(intersection, union))]

jaccard_calculate_best_match(idx) ==
    LET match_original == match_original_series[idx]
        s1_clean == strip(match_norm_series[idx])
        match_vector == transform("word", TRUE, Val(vectorizer), s1_clean)
        similarities == jaccard_similarities(match_vector)
        best_match_idx == argmax(similarities)
    IN  IF s1_clean = << >> THEN Returned(MatchRecord(match_original, None, None))
        \* a vectorizer whose fit raised has no vocabulary: transform raises
        ELSE IF Val(vectorizer) = {} THEN Raised("NotFittedError")
        ELSE IF similarities = << >> THEN Raised("ValueError")
        \* data_original_series.iloc[...] beyond the series
        ELSE IF best_match_idx \notin DOMAIN data_original_series THEN Raised("IndexError")
        ELSE Returned(MatchRecord(match_original,
                                  Some(data_original_series[best_match_idx]),
                                  Some(similarities[best_match_idx])))

\* --------------------------------------------------------------------- dice

\* denominator = match_size + data_sizes, one row
dice_denominator(match_vector, vector) == vec_sum(match_vector) + vec_sum(vector)

dice_coefficient(match_vector, vectors) ==
    [r \in 1..Len(vectors) |->
        LET intersection == multiply_sum(vectors[r], match_vector)
            numerator == 2 * intersection
            denominator == dice_denominator(match_vector, vectors[r])
        IN  nan_to_num(TrueDivide(numerator, denominator))]

dice_calculate_best_match(idx) ==
    LET match_original == match_original_series[idx]
        match_vector == Val(match_vectors)[idx]
        dice_coefficients == dice_coefficient(match_vector, data_vectors)
        max_similarity_idx == argmax(dice_coefficients)
    \* match_ngrams_matrix[idx] of None: 'NoneType' object is not subscriptable
    IN  IF match_vectors = None THEN Raised("TypeError")
        \* match_ngrams_matrix[idx] beyond the rows of the matrix
        ELSE IF idx \notin DOMAIN Val(match_vectors) THEN Raised("IndexError")
        ELSE IF nnz(match_vector) = 0 THEN Returned(MatchRecord(match_original, None, None))
        ELSE IF dice_coefficients = << >> THEN Raised("ValueError")
        \* data_original_series.iloc[...] beyond the series
        ELSE IF max_similarity_idx \notin DOMAIN data_original_series
        THEN Raised("IndexError")
        ELSE Returned(MatchRecord(match_original,
                                  Some(data_original_series[max_similarity_idx]),
                                  Some(dice_coefficients[max_similarity_idx])))

\* -------------------------------------------------------------------- ngram

\* union = match_size + data_sizes - intersection, one row
ngram_union(match_vector, vector) ==
    vec_sum(match_vector) + vec_sum(vector) - multiply_sum(vector, match_vector)

ngram_similarity(match_vector, vectors) ==
    [r \in 1..Len(vectors) |->
        LET intersection == multiply_sum(vectors[r], match_vector)
            union == ngram_union(match_vector, vectors[r])
        IN  nan_to_num(TrueDivide(intersection, union))]

ngram_calculate_best_match(idx) ==
    LET match_original == match_original_series[idx]
        match_vector == Val(match_vectors)[idx]
        similarities == ngram_similarity(match_vector, data_vectors)
        max_similarity_idx == argmax(similarities)
    \* match_ngrams_matrix[idx] of None: 'NoneType' object is not subscriptable
    IN  IF match_vectors = None THEN Raised("TypeError")
        \* match_ngrams_matrix[idx] beyond the rows of the matrix
        ELSE IF idx \notin DOMAIN Val(match_vectors) THEN Raised("IndexError")
        ELSE IF nnz(match_vector) = 0 THEN Returned(MatchRecord(match_original, None, None))
        ELSE IF similarities = << >> THEN Raised("ValueError")
        \* data_original_series.iloc[...] beyond the series
        ELSE IF max_similarity_idx \notin DOMAIN data_original_series
        THEN Raised("IndexError")
        ELSE Returned(MatchRecord(match_original,
                                  Some(data_original_series[max_similarity_idx]),
                                  Some(similarities[max_similarity_idx])))

\* -------------------------------------------------------------------- regex

\* sub occurs in s
Contains(s, sub) ==
    \E i \in 0..(Len(s) - Len(sub)) : SubSeq(s, i + 1, i + Len(sub)) = sub

\* s2_series.str.contains(re.compile(re.escape(s1_clean), re.IGNORECASE))
regex_matching(s1_clean, s2_series) ==
    [r \in 1..Len(s2_series) |-> Contains(lower(s2_series[r]), lower(s1_clean))]

\* numpy.char.find(s1_lower, data_norm_array_lower) >= 0
reverse_regex_matching(s1_clean) ==
    LET s1_lower == lower(s1_clean)
    IN  [r \in 1..Len(data_norm_array_lower) |-> Contains(s1_lower, data_norm_array_lower[r])]

\* a mask of the forward direction alone: the query in the reference record
regex_mask_forward_only(s1_clean) ==
    LET s1_in_s2 == regex_matching(s1_clean, data_norm_series)
    IN  [r \in 1..Len(data_original_series) |-> s1_in_s2[r]]
\* mask = s1_in_s2 | s2_in_s1
regex_mask(s1_clean) ==
    LET s1_in_s2 == regex_matching(s1_clean, data_norm_series)
        s2_in_s1 == reverse_regex_matching(s1_clean)
    IN  [r \in 1..Len(data_original_series) |-> s1_in_s2[r] \/ s2_in_s1[r]]

regex_calculate_best_match(idx) ==
    LET match_original == match_original_series[idx]
        s1_clean == match_norm_series[idx]
        mask == regex_mask(s1_clean)
        matches == SelectSeq([r \in 1..Len(mask) |-> r], LAMBDA r : mask[r])
    IN  IF matches # << >>
        THEN Returned(MatchRecord(match_original, Some(data_original_series[matches[1]]),
                                  Some(TRUE)))
        ELSE Returned(MatchRecord(match_original, None, Some(FALSE)))

calculate_best_match(idx) ==
    CASE ALGORITHM = "levenshtein" -> levenshtein_calculate_best_match(idx)
      [] ALGORITHM = "jaccard" -> jaccard_calculate_best_match(idx)
      [] ALGORITHM = "dice" -> dice_calculate_best_match(idx)
      [] ALGORITHM = "ngram" -> ngram_calculate_best_match(idx)
      [] ALGORITHM = "regex" -> regex_calculate_best_match(idx)

\* ------------------------------------------------------------- thresholds

\* every threshold 0.5
THRESHOLDS_all_half ==
    [regex |-> Fin(1, 2), levenshtein |-> Fin(1, 2), jaccard |-> Fin(1, 2),
     tfidf |-> Fin(1, 2), ngram |-> Fin(1, 2), dice |-> Fin(1, 2)]
\* config/config.py THRESHOLDS, as fractions: 0.5 = 1/2, 0.8 = 4/5
THRESHOLDS ==
    [regex |-> Fin(1, 2), levenshtein |-> Fin(4, 5), jaccard |-> Fin(1, 2),
     tfidf |-> Fin(1, 2), ngram |-> Fin(1, 2), dice |-> Fin(1, 2)]

\* one cell of the BEST_MATCH column as pandas compares it: a missing score
\* (None, NaN) compares False, a boolean compares as 1 or 0
as_float(score) ==
    IF ALGORITHM = "regex" THEN (IF score THEN Fin(1, 1) ELSE Fin(0, 1)) ELSE score
\* the comparison turned round: BEST_MATCH <= threshold
le_threshold(cell, threshold) ==
    IF cell = None THEN FALSE ELSE FGe(threshold, as_float(Val(cell)))
ge_threshold(cell, threshold) ==
    IF cell = None THEN FALSE ELSE FGe(as_float(Val(cell)), threshold)

\* df["BEST_MATCH_BINARY"] = df["BEST_MATCH"] >= THRESHOLDS.<algorithm>
with_binary(rec) ==
    [MATCH |-> rec.MATCH, BEST_FOUND_MATCH |-> rec.BEST_FOUND_MATCH,
     TRUE_MATCH |-> rec.TRUE_MATCH, BEST_MATCH |-> rec.BEST_MATCH,
     BEST_MATCH_BINARY |-> ge_threshold(rec.BEST_MATCH, THRESHOLDS[ALGORITHM])]

\* the algorithm name export_results hands to export_data_for_validation
ALGORITHM_NAME ==
    CASE ALGORITHM = "levenshtein" -> "LEVENSHTEIN"
      [] ALGORITHM = "jaccard" -> "JACCARD"
      [] ALGORITHM = "dice" -> "DICE"
      [] ALGORITHM = "ngram" -> "NGRAM"
      [] ALGORITHM = "regex" -> "REGEX"
\* f"{algorithm}_{col}"
prefixed(col) == ALGORITHM_NAME \o "_" \o col
Range_of(seq) == {seq[j] : j \in 1..Len(seq)}
\* the columns of the results table after the first, in their order
result_columns == <<"BEST_FOUND_MATCH", "TRUE_MATCH", "BEST_MATCH", "BEST_MATCH_BINARY">>
\* df.columns = ["MATCH", *[f"{algorithm}_{col}" for col in df.columns][1:]], one row
rename_columns(row) ==
    [c \in {"MATCH"} \cup {prefixed(result_columns[j]) : j \in 1..Len(result_columns)} |->
        IF c = "MATCH" THEN row.MATCH
        ELSE row[CHOOSE col \in Range_of(result_columns) : prefixed(col) = c]]

\* the text to_csv writes for a boolean
str_bool(b) == IF b THEN <<"T", "r", "u", "e">> ELSE <<"F", "a", "l", "s", "e">>
\* a field of the file: a text (a missing value is the empty field), or a number
\* written in decimal, kept here as the number
csv_text(t) == <<"text", t>>
csv_number(x) == <<"number", x>>
\* df.to_csv(path, sep=";", encoding="utf-8", index=True): a header line, then a
\* line per row: its index label and its cells
to_csv(df) ==
    [header |-> <<"", "MATCH">> \o [j \in 1..Len(result_columns) |->
                                           prefixed(result_columns[j])],
     lines |-> [k \in 1..Len(df) |->
        LET row == df[k]
            found == row[prefixed("BEST_FOUND_MATCH")]
            score == row[prefixed("BEST_MATCH")]
        IN  <<csv_number(k),
              csv_text(row.MATCH),
              IF found = None THEN csv_text(<< >>) ELSE csv_text(Val(found)),
              csv_text(<< >>),
              IF score = None THEN csv_text(<< >>)
              ELSE IF ALGORITHM = "regex" THEN csv_text(str_bool(Val(score)))
              ELSE csv_number(Val(score)),
              csv_text(str_bool(row[prefixed("BEST_MATCH_BINARY")]))>>]]

\* ------------------------------------------------------------------ state

Tables(n) == SeqsUpTo(Cells, n)

Pending == [state |-> "pending", outcome |-> None]

\* the algorithm modules as imported: nothing prepared
MatchingUnprepared ==
    /\ pc = "start"
    /\ data = << >>
    /\ match = << >>
    /\ match_norm_series = None
    /\ match_original_series = None
    /\ data_norm_series = None
    /\ data_original_series = None
    /\ data_norm_array_lower = None
    /\ vectorizer = None
    /\ data_vectors = None
    /\ match_vectors = None
    /\ indices = None
    /\ futures = << >>
    /\ results = << >>
    /\ result_idx = << >>
    /\ printed = << >>
    /\ task_printed = << >>
    /\ raising = {}
    /\ results_df = None
    /\ prep_calls = << >>
    /\ await_validation = None

\* the directories evaluation.py reads or writes and nothing in the repository
\* creates: VALIDATION_DIR (load_validated_data), data/confusion_matrices
\* (_to_csv of a matrix), FIGURES_DIR (plot_metrics) and CONF_MAT_DIR
\* (plot_confusion_matrix). Whether one exists is fixed for the run; the model
\* settles it at the first access.
Directories == {"data/await_validation", "data/confusion_matrices", "figures",
                "figures/confusion_matrices"}
\* what an access to directory d can find
look(d) == IF directories[d] = "not looked at" THEN {"exists", "missing"}
           ELSE {directories[d]}

\* the evaluation script is not run
EvaluationNotRun ==
    /\ validated = << >>
    /\ eval_pc = "not run"
    /\ dataset_name = 0
    /\ algo = 0
    /\ DATA = None
    /\ eval_df = << >>
    /\ eval_results = << >>
    /\ confusion_matrices = << >>
    /\ eval_printed = << >>
    /\ directories = [d \in Directories |-> "not looked at"]

\* no table object is followed
FramesNotFollowed ==
    /\ frames = << >>
    /\ supplied = << >>

Init ==
    /\ ALGORITHM \in Algorithms
    /\ MatchingUnprepared
    /\ EvaluationNotRun
    /\ FramesNotFollowed

\* ------------------------------------------------------------------ prep_

\* indices = match_df.index.tolist(): the index preprocess has reset (here 1..n)
index_tolist(df) == [i \in 1..Len(df) |-> i]

\* levenshtein.prep_
levenshtein_prep_(prep_data, prep_match) ==
    /\ data_norm_series' = prep_data.norm
    /\ data_original_series' = prep_data.orig
    /\ match_norm_series' = prep_match.norm
    /\ match_original_series' = prep_match.orig
    /\ indices' = index_tolist(prep_match.df)
    /\ pc' = "prepared"
    /\ UNCHANGED <<data_norm_array_lower, vectorizer, data_vectors, match_vectors>>

\* jaccard.prep_: data_norm_series is a local there; vectorizer.fit raises
\* ValueError when the corpus holds no token, after the assignments before it
jaccard_prep_(prep_data, prep_match) ==
    LET vocabulary == fit("word", prep_data.norm)
    IN  /\ data_original_series' = prep_data.orig
        /\ match_norm_series' = prep_match.norm
        /\ match_original_series' = prep_match.orig
        /\ indices' = index_tolist(prep_match.df)
        /\ IF vocabulary = None
           THEN /\ vectorizer' = Some({})
                /\ UNCHANGED data_vectors
                /\ pc' = "prep_raised"
           ELSE /\ vectorizer' = vocabulary
                /\ data_vectors' = transform_all("word", TRUE, Val(vocabulary), prep_data.norm)
                /\ pc' = "prepared"
        /\ UNCHANGED <<data_norm_series, data_norm_array_lower, match_vectors>>

\* a prep_ that keeps the corpus vectors of an earlier call
ngrams_prep_keeping(prep_data, prep_match) ==
    LET all_texts == prep_data.norm \o prep_match.norm
        vocabulary == fit("char", all_texts)
    IN  /\ data_original_series' = prep_data.orig
        /\ match_original_series' = prep_match.orig
        /\ indices' = index_tolist(prep_match.df)
        /\ IF vocabulary = None
           THEN /\ UNCHANGED <<data_vectors, match_vectors>>
                /\ pc' = "prep_raised"
           ELSE /\ data_vectors' =
                      IF data_vectors # None THEN data_vectors
                      ELSE transform_all("char", FALSE, Val(vocabulary), prep_data.norm)
                /\ match_vectors' =
                      Some(transform_all("char", FALSE, Val(vocabulary), prep_match.norm))
                /\ pc' = "prepared"
        /\ UNCHANGED <<data_norm_series, match_norm_series, data_norm_array_lower, vectorizer>>
\* dice.prep_ and ngram.prep_ (the same code): the normalized series and the
\* vectorizer are locals; vectorizer.fit(all_texts) raises ValueError when no
\* text holds a bigram, after the assignments before it
ngrams_prep_(prep_data, prep_match) ==
    LET all_texts == prep_data.norm \o prep_match.norm
        vocabulary == fit("char", all_texts)
    IN  /\ data_original_series' = prep_data.orig
        /\ match_original_series' = prep_match.orig
        /\ indices' = index_tolist(prep_match.df)
        /\ IF vocabulary = None
           THEN /\ UNCHANGED <<data_vectors, match_vectors>>
                /\ pc' = "prep_raised"
           ELSE /\ data_vectors' = transform_all("char", FALSE, Val(vocabulary), prep_data.norm)
                /\ match_vectors' =
                      Some(transform_all("char", FALSE, Val(vocabulary), prep_match.norm))
                /\ pc' = "prepared"
        /\ UNCHANGED <<data_norm_series, match_norm_series, data_norm_array_lower, vectorizer>>

\* regex.prep_
regex_prep_(prep_data, prep_match) ==
    /\ data_norm_series' = prep_data.norm
    /\ data_original_series' = prep_data.orig
    /\ match_norm_series' = prep_match.norm
    /\ match_original_series' = prep_match.orig
    /\ indices' = index_tolist(prep_match.df)
    /\ data_norm_array_lower' = [i \in 1..Len(prep_data.norm) |-> lower(prep_data.norm[i])]
    /\ pc' = "prepared"
    /\ UNCHANGED <<vectorizer, data_vectors, match_vectors>>

\* how the prep_ call of a step ended
prep_outcome(pc_after) == IF pc_after = "prep_raised" THEN "raised" ELSE "completed"

\* main.py: prep_data = preprocess(data, data_column); prep_match = preprocess(match,
\* match_column); ALGORITHM.prep_(prep_data, prep_match)
Prep(d, m) ==
    LET prep_data == preprocess(d)
        prep_match == preprocess(m)
    IN  /\ pc = "start"
        /\ data' = d
        /\ match' = m
        /\ CASE ALGORITHM = "levenshtein" -> levenshtein_prep_(prep_data, prep_match)
             [] ALGORITHM = "jaccard" -> jaccard_prep_(prep_data, prep_match)
             [] ALGORITHM \in {"dice", "ngram"} -> ngrams_prep_(prep_data, prep_match)
             [] ALGORITHM = "regex" -> regex_prep_(prep_data, prep_match)
        /\ prep_calls' = Append(prep_calls, prep_outcome(pc'))
        /\ UNCHANGED <<ALGORITHM, futures, results, result_idx, printed, task_printed, raising, results_df>>
        /\ UNCHANGED <<evaluation_vars, frame_vars, file_vars>>

\* ------------------------------------------------------- perform_matching

\* perform_matching is entered: results = [] and the executor of the with block;
\* the dict comprehension has submitted nothing yet
perform_matching_called ==
    /\ pc = "prepared"
    /\ futures' = << >>
    /\ results' = << >>
    /\ result_idx' = << >>
    /\ pc' = IF Len(indices) = 0 THEN "matching" ELSE "submitting"
    /\ UNCHANGED <<ALGORITHM, data, match, match_norm_series, match_original_series,
                   data_norm_series, data_original_series, data_norm_array_lower,
                   vectorizer, data_vectors, match_vectors, indices, printed,
                   task_printed, raising, results_df>>
    /\ UNCHANGED <<evaluation_vars, frame_vars, history_vars, file_vars>>

\* a comprehension that stops before the last index
Submit_without_last ==
    /\ pc = "submitting"
    /\ IF Len(futures) + 1 = Len(indices)
       THEN futures' = futures /\ pc' = "matching"
       ELSE futures' = Append(futures, Pending) /\ pc' = "submitting"
    /\ UNCHANGED <<ALGORITHM, data, match, match_norm_series, match_original_series,
                   data_norm_series, data_original_series, data_norm_array_lower,
                   vectorizer, data_vectors, match_vectors, indices, results, result_idx,
                   printed, task_printed, raising, results_df>>
    /\ UNCHANGED <<evaluation_vars, frame_vars, history_vars, file_vars>>

\* one pass of {executor.submit(__calculate_best_match, idx): idx for idx in indices}:
\* the task of the next index is handed to the executor, whose workers run the
\* tasks submitted before while the comprehension goes on; the loop over
\* as_completed starts after the last submission
Submit ==
    /\ pc = "submitting"
    /\ futures' = Append(futures, Pending)
    /\ pc' = IF Len(futures) + 1 = Len(indices) THEN "matching" ELSE "submitting"
    /\ UNCHANGED <<ALGORITHM, data, match, match_norm_series, match_original_series,
                   data_norm_series, data_original_series, data_norm_array_lower,
                   vectorizer, data_vectors, match_vectors, indices, results, result_idx,
                   printed, task_printed, raising, results_df>>
    /\ UNCHANGED <<evaluation_vars, frame_vars, history_vars, file_vars>>

\* the run of the task of position i on index idx up to its first visible
\* effect. The task of ngram catches its exception and prints "Error in
\* calculate_best_match at index {idx}" (line 65): the line is on stdout while
\* the future is still not done, the exception raised again in a later step.
\* Every other run ends the task: the executor sets the result or the exception
\* of the future.
task_run(i, idx, outcome) ==
    IF ALGORITHM = "ngram" /\ outcome[1] = "exception"
    THEN /\ task_printed' = Append(task_printed, idx)
         /\ raising' = raising \cup {<<i, outcome>>}
         /\ UNCHANGED futures
    ELSE /\ futures' = [futures EXCEPT
                          ![i] = [state |-> "finished", outcome |-> Some(outcome)]]
         /\ UNCHANGED <<task_printed, raising>>
\* the positions of the tasks a worker can pick up: submitted, not started
Startable == {i \in 1..Len(futures) :
                futures[i].state = "pending" /\ \A r \in raising : r[1] # i}

\* a task that takes its query index from a cursor the tasks share: the k-th
\* task to start scores the k-th query, whichever future it belongs to
RunTask_shared_cursor(i) ==
    LET started == Len(futures) - Cardinality(Startable)
        outcome == calculate_best_match(indices[started + 1])
    IN  /\ pc \in {"submitting", "matching"}
        /\ i \in Startable
        /\ task_run(i, indices[started + 1], outcome)
        /\ UNCHANGED <<ALGORITHM, pc, data, match, match_norm_series, match_original_series,
                       data_norm_series, data_original_series, data_norm_array_lower,
                       vectorizer, data_vectors, match_vectors, indices, results,
                       result_idx, printed, results_df>>
        /\ UNCHANGED <<evaluation_vars, frame_vars, history_vars, file_vars>>

\* a task that clears the original text of its query in the module state
RunTask_clearing(i) ==
    LET outcome == calculate_best_match(indices[i])
    IN  /\ pc \in {"submitting", "matching"}
        /\ i \in Startable
        /\ task_run(i, indices[i], outcome)
        /\ match_original_series' = [match_original_series EXCEPT ![indices[i]] = << >>]
        /\ UNCHANGED <<ALGORITHM, pc, data, match, match_norm_series,
                       data_norm_series, data_original_series, data_norm_array_lower,
                       vectorizer, data_vectors, match_vectors, indices, results,
                       result_idx, printed, results_df>>
        /\ UNCHANGED <<evaluation_vars, frame_vars, history_vars, file_vars>>

\* a worker runs a submitted task, during the comprehension that submits the
\* others or during the loop over as_completed: to its end, or in ngram up to
\* the line the task prints about its exception
RunTask(i) ==
    LET outcome == calculate_best_match(indices[i])
    IN  /\ pc \in {"submitting", "matching"}
        /\ i \in Startable
        /\ task_run(i, indices[i], outcome)
        /\ UNCHANGED <<ALGORITHM, pc, data, match, match_norm_series, match_original_series,
                       data_norm_series, data_original_series, data_norm_array_lower,
                       vectorizer, data_vectors, match_vectors, indices, results,
                       result_idx, printed, results_df>>
        /\ UNCHANGED <<evaluation_vars, frame_vars, history_vars, file_vars>>

\* ngram.py line 66: a task that printed its exception raises it again, and the
\* executor sets it as the exception of the future
Reraise(i) ==
    /\ pc \in {"submitting", "matching"}
    /\ \E r \in raising :
          /\ r[1] = i
          /\ futures' = [futures EXCEPT
                           ![i] = [state |-> "finished", outcome |-> Some(r[2])]]
          /\ raising' = raising \ {r}
    /\ UNCHANGED <<ALGORITHM, pc, data, match, match_norm_series, match_original_series,
                   data_norm_series, data_original_series, data_norm_array_lower,
                   vectorizer, data_vectors, match_vectors, indices, results,
                   result_idx, printed, task_printed, results_df>>
    /\ UNCHANGED <<evaluation_vars, frame_vars, history_vars, file_vars>>

\* a loop body without the try/except: the exception of future.result() leaves
\* perform_matching
Collect_without_except(i) ==
    LET outcome == Val(futures[i].outcome)
    IN  /\ pc = "matching"
        /\ futures[i].state = "finished"
        /\ futures' = [futures EXCEPT ![i].state = "yielded"]
        /\ IF outcome[1] = "result"
           THEN /\ results' = Append(results, outcome[2])
                /\ result_idx' = Append(result_idx, indices[i])
                /\ UNCHANGED pc
           ELSE /\ pc' = "perform_matching_raised"
                /\ UNCHANGED <<results, result_idx>>
        /\ UNCHANGED <<ALGORITHM, data, match, match_norm_series, printed, task_printed, raising,
                       match_original_series, data_norm_series, data_original_series,
                       data_norm_array_lower, vectorizer, data_vectors, match_vectors,
                       indices, results_df>>
        /\ UNCHANGED <<evaluation_vars, frame_vars, history_vars, file_vars>>

\* the body of "for future in as_completed(futures)" for a finished future
Collect(i) ==
    LET outcome == Val(futures[i].outcome)
    IN  /\ pc = "matching"
        /\ futures[i].state = "finished"
        /\ futures' = [futures EXCEPT ![i].state = "yielded"]
        /\ IF outcome[1] = "result"
           THEN /\ results' = Append(results, outcome[2])
                /\ result_idx' = Append(result_idx, indices[i])
                /\ UNCHANGED printed
           ELSE /\ printed' = Append(printed, indices[i])
                /\ UNCHANGED <<results, result_idx>>
        /\ UNCHANGED <<ALGORITHM, pc, data, match, match_norm_series,
                       match_original_series, data_norm_series, data_original_series,
                       data_norm_array_lower, vectorizer, data_vectors, match_vectors,
                       indices, task_printed, raising, results_df>>
        /\ UNCHANGED <<evaluation_vars, frame_vars, history_vars, file_vars>>

\* as_completed is exhausted: return results
Return ==
    /\ pc = "matching"
    /\ \A i \in 1..Len(futures) : futures[i].state = "yielded"
    /\ pc' = "matched"
    /\ UNCHANGED <<ALGORITHM, data, match, match_norm_series, match_original_series,
                   data_norm_series, data_original_series, data_norm_array_lower,
                   vectorizer, data_vectors, match_vectors, indices, futures, results,
                   result_idx, printed, task_printed, raising, results_df>>
    /\ UNCHANGED <<evaluation_vars, frame_vars, history_vars, file_vars>>

\* --------------------------------------------------------- export_results

\* results_df = pd.DataFrame(results); ALGORITHM.export_results(results_df, ...).
\* A table built from no records has no BEST_MATCH column: KeyError. Otherwise
\* the table gets BEST_MATCH_BINARY and its columns are renamed in place, and it
\* is written to data/await_validation/<file[:13]>/<column>/; to_csv raises
\* OSError when that directory is missing, the table renamed already.
Export ==
    /\ pc = "matched"
    /\ IF results = << >>
       THEN /\ pc' = "export_raised"
            /\ UNCHANGED <<results_df, await_validation>>
       ELSE \E directory_exists \in BOOLEAN :
              LET df == [k \in 1..Len(results) |-> rename_columns(with_binary(results[k]))]
              IN  /\ results_df' = Some(df)
                  /\ IF directory_exists
                     THEN /\ await_validation' = Some(to_csv(df))
                          /\ pc' = "exported"
                     ELSE /\ UNCHANGED await_validation
                          /\ pc' = "save_raised"
    /\ UNCHANGED <<ALGORITHM, data, match, match_norm_series, match_original_series,
                   data_norm_series, data_original_series, data_norm_array_lower,
                   vectorizer, data_vectors, match_vectors, indices, futures, results,
                   result_idx, printed, task_printed, raising>>
    /\ UNCHANGED <<evaluation_vars, frame_vars, history_vars>>

Next ==
    \/ pc = "start" /\ \E d \in Tables(MaxData), m \in Tables(MaxMatch) : Prep(d, m)
    \/ perform_matching_called
    \/ Submit
    \/ \E i \in 1..Len(futures) : RunTask(i)
    \/ \E i \in 1..Len(futures) : Reraise(i)
    \/ \E i \in 1..Len(futures) : Collect(i)
    \/ Return
    \/ Export

Spec == Init /\ [][Next]_vars

\* perform_matching under the scheduling of its executor: a submitted task is run
\* by a worker as long as one is pending (each task terminates), the
\* comprehension submits the next index as long as one is left, as_completed
\* yields a finished future as long as one is not yet yielded, and the function
\* returns when the loop and the with block are left
TaskPending == pc \in {"submitting", "matching"} /\ Startable # {}
SpecTermination ==
    /\ Init
    /\ [][Next]_vars
    \* WF_vars(\E i \in 1..Len(futures) : RunTask(i)), its ENABLED written out:
    \* a task can be run exactly when one is pending
    /\ \/ []<>(~TaskPending)
       \/ []<><<\E i \in 1..Len(futures) : RunTask(i)>>_vars
    /\ WF_vars(\E i \in 1..Len(futures) : Reraise(i))
    /\ WF_vars(Submit)
    /\ WF_vars(\E i \in 1..Len(futures) : Collect(i))
    /\ WF_vars(Return)

\* ------------------------------------------------------------ evaluation.py

\* a label cell of a validated table: NaN (missing), a boolean (1 for True, 0
\* for False), a number, or a text
LabelBool(b) == <<"bool", b>>
Number(n) == <<"num", n>>
Text(t) == <<"str", t>>
IsMissing(cell) == cell = NaN

\* the dtype pandas gives a column of these cells
infer_dtype(values) ==
    IF values = << >> THEN "object"
    ELSE IF \A i \in 1..Len(values) : ~IsMissing(values[i]) /\ values[i][1] = "bool"
    THEN "bool"
    ELSE IF \A i \in 1..Len(values) : IsMissing(values[i]) \/ values[i][1] = "num"
    THEN (IF \E i \in 1..Len(values) : IsMissing(values[i]) THEN "float64" ELSE "int64")
    ELSE "object"
Series(values) == [dtype |-> infer_dtype(values), values |-> values]

\* a table: its number of rows and its columns by name; the columns of an
\* algorithm are f"{algo.upper()}_TRUE_MATCH" and f"{algo.upper()}_BEST_MATCH_BINARY"
EmptyFrame == [len |-> 0, columns |-> << >>]
y_true_col(a) == <<a, "TRUE_MATCH">>
y_pred_col(a) == <<a, "BEST_MATCH_BINARY">>
\* DataFrame.empty
empty(df) == df.len = 0 \/ DOMAIN df.columns = {}

\* pd.concat([a, b], ignore_index=True): the rows of a, then the rows of b, a
\* column missing in one of them filled with NaN
concat(a, b) ==
    LET names == DOMAIN a.columns \cup DOMAIN b.columns
        part(df, c) == IF c \in DOMAIN df.columns THEN df.columns[c].values
                       ELSE [i \in 1..df.len |-> NaN]
    IN  [len |-> a.len + b.len,
         columns |-> [c \in names |-> Series(part(a, c) \o part(b, c))]]

datasets == <<"STREET", "FULLNAME", "BOTH">>
\* the keys of config.THRESHOLDS, in their order
THRESHOLDS_keys == <<"regex", "levenshtein", "jaccard", "tfidf", "ngram", "dice">>

\* load_validated_data(name): VALIDATION_DIR.iterdir() raises FileNotFoundError
\* when data/await_validation is missing; otherwise the validated files found
\* under it for the name, concatenated, or an empty DataFrame when there is none
load_validated_data(name, validation_dir) ==
    IF validation_dir = "missing" THEN Raised("FileNotFoundError")
    ELSE Returned(validated[name])

\* series[mask]: the rows the mask keeps, the dtype unchanged
boolean_index(series, mask) ==
    LET kept == SelectSeq([i \in 1..Len(mask) |-> i], LAMBDA i : mask[i])
    IN  [dtype |-> series.dtype,
         values |-> [k \in 1..Len(kept) |-> series.values[kept[k]]]]

\* mask = y_true.notna()
notna_of_truth_only(y_true, y_pred) ==
    [i \in 1..Len(y_true.values) |-> ~IsMissing(y_true.values[i])]
\* mask = y_true.notna() & y_pred.notna()
notna_both(y_true, y_pred) ==
    [i \in 1..Len(y_true.values) |->
        ~IsMissing(y_true.values[i]) /\ ~IsMissing(y_pred.values[i])]

\* bool(x) of a cell: a text is true unless empty, a number unless 0, NaN is true
truthy(cell) ==
    IF IsMissing(cell) THEN 1
    ELSE IF cell[1] = "str" THEN (IF cell[2] = "" THEN 0 ELSE 1)
    ELSE IF cell[2] = 0 THEN 0 ELSE 1
\* series.astype(bool)
astype_bool(series) ==
    [dtype |-> "bool",
     values |-> [i \in 1..Len(series.values) |-> LabelBool(truthy(series.values[i]))]]

\* cell in (0, 1): True == 1 and False == 0, a text or NaN equals neither
in_valid_labels(cell) ==
    /\ ~IsMissing(cell)
    /\ cell[1] \in {"bool", "num"}
    /\ cell[2] \in {0, 1}
\* set(series.unique()).issubset(valid_labels)
issubset_valid_labels(series) ==
    \A i \in 1..Len(series.values) : in_valid_labels(series.values[i])

Skip(reason) == <<"skip", reason>>
Labels(y_true, y_pred) == <<"labels", y_true, y_pred>>

\* the part the two loops over THRESHOLDS share: the columns of the algorithm,
\* masked, coerced and checked; the labels to score or the reason to skip
binary_labels(df, a) ==
    IF y_true_col(a) \notin DOMAIN df.columns \/ y_pred_col(a) \notin DOMAIN df.columns
    THEN Skip("Columns not found")
    ELSE LET mask == notna_both(df.columns[y_true_col(a)], df.columns[y_pred_col(a)])
             y_true == boolean_index(df.columns[y_true_col(a)], mask)
             y_pred == boolean_index(df.columns[y_pred_col(a)], mask)
             object == y_true.dtype = "object"
             y_true_2 == IF object THEN astype_bool(y_true) ELSE y_true
             y_pred_2 == IF object THEN astype_bool(y_pred) ELSE y_pred
         IN  IF y_true.values = << >> THEN Skip("No valid data")
             ELSE IF ~issubset_valid_labels(y_true_2) \/ ~issubset_valid_labels(y_pred_2)
             THEN Skip("Invalid labels detected")
             ELSE Labels(y_true_2, y_pred_2)

\* ------------------------------------------------------- sklearn.metrics

\* the number of rows with true label t and predicted label p
count_pairs(y_true, y_pred, t, p) ==
    Cardinality({i \in 1..Len(y_true.values) :
                    y_true.values[i][2] = t /\ y_pred.values[i][2] = p})

\* the five scores of lines 108-112, or the exception one of them raises.
\* A column of dtype object is a target of type "unknown" to sklearn: ValueError.
\* With one class in y_true roc_auc_score raises ValueError or, in later
\* versions, warns and returns NaN: one_class is "raise" or "nan".
metric_scores(y_true, y_pred, one_class) ==
    LET tp == count_pairs(y_true, y_pred, 1, 1)
        tn == count_pairs(y_true, y_pred, 0, 0)
        fp == count_pairs(y_true, y_pred, 0, 1)
        fn == count_pairs(y_true, y_pred, 1, 0)
        positives == tp + fn
        negatives == tn + fp
        ratio(n, d) == IF d = 0 THEN Fin(0, 1) ELSE Fin(n, d)
    IN  IF y_pred.dtype = "object" THEN Raised("ValueError")
        ELSE IF (positives = 0 \/ negatives = 0) /\ one_class = "raise"
        THEN Raised("ValueError")
        ELSE Returned(
               [Accuracy |-> Fin(tp + tn, Len(y_true.values)),
                Precision |-> ratio(tp, tp + fp),
                Recall |-> ratio(tp, tp + fn),
                F1_Score |-> ratio(2 * tp, 2 * tp + fp + fn),
                ROC_AUC |-> IF positives = 0 \/ negatives = 0 THEN FNaN
                            ELSE Fin(tp * negatives - fp * positives + positives * negatives,
                                     2 * positives * negatives)])

\* cm = confusion_matrix(y_true, y_pred) and the 2 x 2 table made of it: with
\* one label in y_true and y_pred together cm is 1 x 1 and pd.DataFrame raises
confusion_matrix(y_true, y_pred) ==
    LET labels == {y_true.values[i][2] : i \in 1..Len(y_true.values)}
                     \cup {y_pred.values[i][2] : i \in 1..Len(y_pred.values)}
    IN  IF Cardinality(labels) # 2 THEN Raised("ValueError")
        ELSE Returned(<< <<count_pairs(y_true, y_pred, 0, 0), count_pairs(y_true, y_pred, 0, 1)>>,
                         <<count_pairs(y_true, y_pred, 1, 0), count_pairs(y_true, y_pred, 1, 1)>> >>)

\* ------------------------------------------------- the evaluation script

\* "continue" of the loop over datasets, or its end
NextDataset ==
    IF dataset_name = Len(datasets)
    THEN eval_pc' = "done" /\ UNCHANGED dataset_name
    ELSE eval_pc' = "load" /\ dataset_name' = dataset_name + 1
\* the end of one pass of a loop over THRESHOLDS, which `after` follows
NextAlgo(after) ==
    IF algo = Len(THRESHOLDS_keys)
    THEN eval_pc' = after /\ UNCHANGED algo
    ELSE algo' = algo + 1 /\ UNCHANGED eval_pc

\* data/await_validation as load_validated_data finds it: it exists when a
\* validated file lies under it
look_for_validated ==
    IF \E name \in DOMAIN validated : validated[name] # EmptyFrame
    THEN {"exists"}
    ELSE look("data/await_validation")

\* lines 67-79: load the dataset; an empty one is reported and skipped. With
\* data/await_validation missing the first load raises FileNotFoundError, which
\* nothing catches: the script ends before any dataset is evaluated
EvalLoad ==
    \E validation_dir \in look_for_validated :
      LET name == datasets[dataset_name]
          \* the first call of the pass, and for "BOTH" the second
          first == load_validated_data(IF name = "BOTH" THEN "STREET" ELSE name,
                                       validation_dir)
          second == load_validated_data("FULLNAME", validation_dir)
          loaded == IF name = "BOTH" THEN concat(first[2], second[2]) ELSE first[2]
      IN  /\ eval_pc = "load"
          /\ directories' = [directories EXCEPT !["data/await_validation"] = validation_dir]
          /\ IF first[1] = "exception"
             THEN /\ eval_pc' = "load_raised"
                  /\ UNCHANGED <<DATA, algo, eval_df, dataset_name, eval_printed>>
             ELSE /\ DATA' = loaded
                  /\ IF empty(loaded)
                     THEN /\ eval_printed' = Append(eval_printed, <<"No data found", name>>)
                          /\ NextDataset
                          /\ UNCHANGED <<algo, eval_df>>
                     ELSE /\ eval_df' = << >>
                          /\ algo' = 1
                          /\ eval_pc' = "metrics"
                          /\ UNCHANGED <<dataset_name, eval_printed>>
          /\ UNCHANGED <<validated, eval_results, confusion_matrices>>
          /\ UNCHANGED <<matching_vars, frame_vars, history_vars, file_vars>>

\* lines 80-114: one pass of the metrics loop
EvalMetrics(one_class) ==
    LET name == datasets[dataset_name]
        a == THRESHOLDS_keys[algo]
        checked == binary_labels(DATA, a)
        scored == metric_scores(checked[2], checked[3], one_class)
    IN  /\ eval_pc = "metrics"
        /\ IF checked[1] = "skip"
           THEN /\ eval_printed' = Append(eval_printed, <<checked[2], a, name>>)
                /\ NextAlgo("export")
                /\ UNCHANGED eval_df
           ELSE IF scored[1] = "exception"
           THEN /\ eval_pc' = "raised"
                /\ UNCHANGED <<algo, eval_df, eval_printed>>
           ELSE /\ eval_df' = (a :> scored[2]) @@ eval_df
                /\ NextAlgo("export")
                /\ UNCHANGED eval_printed
        /\ UNCHANGED <<validated, dataset_name, DATA, eval_results, confusion_matrices,
                       directories>>
        /\ UNCHANGED <<matching_vars, frame_vars, history_vars, file_vars>>

\* lines 116-122: a metrics table without columns is reported and the dataset
\* skipped; else the table is exported to DATA_DIR and plot_metrics saves its
\* figure to FIGURES_DIR: savefig raises FileNotFoundError when that directory
\* is missing, the table exported already, and the script ends
EvalExport ==
    LET name == datasets[dataset_name]
    IN  /\ eval_pc = "export"
        /\ IF DOMAIN eval_df = {}
           THEN /\ eval_printed' = Append(eval_printed, <<"No evaluation data", name>>)
                /\ NextDataset
                /\ UNCHANGED <<algo, eval_results, directories>>
           ELSE \E figures \in look("figures") :
                /\ eval_results' = Append(eval_results, <<name, eval_df>>)
                /\ directories' = [directories EXCEPT !["figures"] = figures]
                /\ IF figures = "missing"
                   THEN eval_pc' = "save_raised" /\ UNCHANGED algo
                   ELSE eval_pc' = "confusion" /\ algo' = 1
                /\ UNCHANGED <<dataset_name, eval_printed>>
        /\ UNCHANGED <<validated, DATA, eval_df, confusion_matrices>>
        /\ UNCHANGED <<matching_vars, frame_vars, history_vars, file_vars>>

\* lines 124-156: one pass of the confusion-matrix loop. The matrix is written
\* to data/confusion_matrices (_to_csv raises OSError when the directory is
\* missing, nothing written), then plot_confusion_matrix saves its figure to
\* CONF_MAT_DIR (savefig raises FileNotFoundError when that is missing, the
\* matrix written already); either exception ends the script
EvalConfusion ==
    LET name == datasets[dataset_name]
        a == THRESHOLDS_keys[algo]
        checked == binary_labels(DATA, a)
        cm == confusion_matrix(checked[2], checked[3])
    IN  /\ eval_pc = "confusion"
        /\ IF checked[1] = "skip"
           THEN /\ UNCHANGED <<confusion_matrices, directories>>
                /\ IF algo = Len(THRESHOLDS_keys)
                   THEN NextDataset /\ UNCHANGED algo
                   ELSE algo' = algo + 1 /\ UNCHANGED <<eval_pc, dataset_name>>
           ELSE IF cm[1] = "exception"
           THEN /\ eval_pc' = "raised"
                /\ UNCHANGED <<algo, dataset_name, confusion_matrices, directories>>
           ELSE \E csv_dir \in look("data/confusion_matrices") :
                IF csv_dir = "missing"
                THEN /\ directories' =
                           [directories EXCEPT !["data/confusion_matrices"] = csv_dir]
                     /\ eval_pc' = "save_raised"
                     /\ UNCHANGED <<algo, dataset_name, confusion_matrices>>
                ELSE \E fig_dir \in look("figures/confusion_matrices") :
                     /\ directories' =
                           [directories EXCEPT !["data/confusion_matrices"] = csv_dir,
                                               !["figures/confusion_matrices"] = fig_dir]
                     /\ confusion_matrices' = (<<a, name>> :> cm[2]) @@ confusion_matrices
                     /\ IF fig_dir = "missing"
                        THEN eval_pc' = "save_raised" /\ UNCHANGED <<algo, dataset_name>>
                        ELSE IF algo = Len(THRESHOLDS_keys)
                        THEN NextDataset /\ UNCHANGED algo
                        ELSE algo' = algo + 1 /\ UNCHANGED <<eval_pc, dataset_name>>
        /\ UNCHANGED <<validated, DATA, eval_df, eval_results, eval_printed>>
        /\ UNCHANGED <<matching_vars, frame_vars, history_vars, file_vars>>

\* the cells of the label columns in the validated tables
TruthCells == {NaN, LabelBool(1), LabelBool(0), Number(2), Text("0"), Text("yes")}
PredCells == {NaN, LabelBool(1), LabelBool(0), Number(2)}
EvalRows == TruthCells \X PredCells
\* pd.read_csv leaves the text "0" in a column only next to a text that is no
\* number: a column of numerals is read as numbers
read_csv_rows(rows) ==
    (\E i \in 1..Len(rows) : rows[i][1] = Text("0"))
        => (\E i \in 1..Len(rows) : rows[i][1] = Text("yes"))

\* a validated table: the regex columns hold the given rows; with with_second
\* the levenshtein columns are there too, the ground truth True and False in
\* turn and every prediction True. No row: no file was found, pd.DataFrame().
validated_frame(rows, with_second) ==
    LET n == Len(rows)
        first == (y_true_col("regex") :> Series([i \in 1..n |-> rows[i][1]]))
                    @@ (y_pred_col("regex") :> Series([i \in 1..n |-> rows[i][2]]))
        second == (y_true_col("levenshtein") :> Series([i \in 1..n |-> LabelBool(i % 2)]))
                    @@ (y_pred_col("levenshtein") :> Series([i \in 1..n |-> LabelBool(1)]))
    IN  IF n = 0 THEN EmptyFrame
        ELSE [len |-> n, columns |-> IF with_second THEN first @@ second ELSE first]

\* the validated files of STREET hold the columns of regex and of levenshtein,
\* those of FULLNAME the columns of regex only
InitEvaluation ==
    /\ ALGORITHM = "levenshtein"
    /\ MatchingUnprepared
    /\ \E street \in SeqsUpTo(EvalRows, MaxEvalRows) :
          \E fullname \in SeqsUpTo(EvalRows, MaxEvalRows - Len(street)) :
              /\ read_csv_rows(street) /\ read_csv_rows(fullname)
              /\ validated = [STREET |-> validated_frame(street, TRUE),
                              FULLNAME |-> validated_frame(fullname, FALSE)]
    /\ eval_pc = "load"
    /\ dataset_name = 1
    /\ algo = 0
    /\ DATA = None
    /\ eval_df = << >>
    /\ eval_results = << >>
    /\ confusion_matrices = << >>
    /\ eval_printed = << >>
    /\ directories = [d \in Directories |-> "not looked at"]
    /\ FramesNotFollowed

NextEvaluation ==
    \/ EvalLoad
    \/ \E one_class \in {"raise", "nan"} : EvalMetrics(one_class)
    \/ EvalExport
    \/ EvalConfusion

SpecEvaluation == InitEvaluation /\ [][NextEvaluation]_vars

\* ---------------------------------------------------------- scenario runs

\* the texts of the scenarios of the specification, character by character
\* "Schlossstrasse"
Schlossstrasse ==
    <<"S", "c", "h", "l", "o", "s", "s", "s", "t", "r", "a", "s", "s", "e">>
\* "Goethestrasse"
Goethestrasse ==
    <<"G", "o", "e", "t", "h", "e", "s", "t", "r", "a", "s", "s", "e">>
\* "Schlossstr."
Schlossstr_dot ==
    <<"S", "c", "h", "l", "o", "s", "s", "s", "t", "r", ".">>
\* "Hauptstraße 1"
Hauptstrasze_1 ==
    <<"H", "a", "u", "p", "t", "s", "t", "r", "a", "eszett", "e", " ", "1">>
\* "Hauptstrasse Eins"
Hauptstrasse_Eins ==
    <<"H", "a", "u", "p", "t", "s", "t", "r", "a", "s", "s", "e", " ", "E", "i", "n",
      "s">>
\* "Hauptstrasse"
Hauptstrasse ==
    <<"H", "a", "u", "p", "t", "s", "t", "r", "a", "s", "s", "e">>
\* "Über"
Ueber ==
    <<"uml_U", "b", "e", "r">>

\* "Dr. Müller-Straße 123"
Dr_Mueller_Strasze_123 ==
    <<"D", "r", ".", " ", "M", "uml_u", "l", "l", "e", "r", "-", "S", "t", "r", "a",
      "eszett", "e", " ", "1", "2", "3">>

ScenarioTexts ==
    {Schlossstrasse, Goethestrasse, Schlossstr_dot, Hauptstrasze_1, Hauptstrasse_Eins,
     Hauptstrasse, Ueber, Dr_Mueller_Strasze_123}
ScenarioCells == {Some(t) : t \in ScenarioTexts}

\* the pipeline run on tables of the scenario texts
NextScenarios ==
    \/ pc = "start" /\ \E d \in SeqsUpTo(ScenarioCells, MaxScenarioData),
                          m \in SeqsUpTo(ScenarioCells, MaxScenarioMatch) : Prep(d, m)
    \/ perform_matching_called
    \/ Submit
    \/ \E i \in 1..Len(futures) : RunTask(i)
    \/ \E i \in 1..Len(futures) : Reraise(i)
    \/ \E i \in 1..Len(futures) : Collect(i)
    \/ Return
    \/ Export

SpecScenarios == Init /\ [][NextScenarios]_vars

\* ------------------------------------- the pipeline on table objects

\* a cell of the compared column that is neither missing nor a text: the number 7
NonText == <<"int", 7>>
\* isinstance(value, str): a text is Some(t), one element long
is_str(cell) == Len(cell) = 1
FrameCells == {NaN, Some(<<"A", ".">>), Some(<<"a", "a", "b">>), NonText}

\* a table object: its index labels and the cells of the compared column
Frame(index, values) == [index |-> index, values |-> values]
\* the index 0..n-1 (here 1..n)
RangeIndex(n) == [i \in 1..n |-> i]
\* df.copy(): a new object with the index and the cells of object id
copy(heap, id) == Append(heap, heap[id])
\* df.reset_index(drop=True, inplace=False): a new object with the default index
reset_index(heap, id) ==
    Append(heap, Frame(RangeIndex(Len(heap[id].values)), heap[id].values))
\* series.fillna("", inplace=False)
fillna(values) ==
    [i \in 1..Len(values) |-> IF values[i] = NaN THEN Some(<< >>) ELSE values[i]]
\* an assignment that reaches every object holding the cells of object id, as
\* if copies shared their data
setitem_shared(heap, id, values) ==
    [k \in 1..Len(heap) |->
        IF heap[k].values = heap[id].values THEN Frame(heap[k].index, values) ELSE heap[k]]
\* df[column] = values on object id
setitem(heap, id, values) ==
    [heap EXCEPT ![id] = Frame(heap[id].index, values)]
\* series.apply(__normalize_text): re.sub raises TypeError for a value that is
\* no str
apply_normalize_text(values) ==
    IF \E i \in 1..Len(values) : ~is_str(values[i]) THEN Raised("TypeError")
    ELSE Returned([i \in 1..Len(values) |-> normalize_text(Val(values[i]))])

\* preprocess(df, column) on the object id: the heap after the call, and the
\* tuple returned (the object df_copy, the normalized and the original series)
\* or the exception raised
preprocess_frame(heap, id) ==
    LET copied == copy(heap, id)
        reset == reset_index(copied, Len(copied))
        df_copy == Len(reset)
        filled == setitem(reset, df_copy, fillna(reset[df_copy].values))
        normalized_series == apply_normalize_text(filled[df_copy].values)
        original_series == [i \in 1..Len(filled[df_copy].values) |->
                               Val(filled[df_copy].values[i])]
    IN  [heap |-> filled,
         outcome |-> IF normalized_series[1] = "exception" THEN normalized_series
                     ELSE Returned([df |-> original_series,
                                    index |-> filled[df_copy].index,
                                    norm |-> normalized_series[2],
                                    orig |-> original_series])]

\* main.py lines 98-100 on the table objects 1 (reference) and 2 (query)
PreprocessAndPrep ==
    LET of_data == preprocess_frame(frames, 1)
        of_match == preprocess_frame(of_data.heap, 2)
        prep_data == of_data.outcome[2]
        prep_match == of_match.outcome[2]
    IN  /\ pc = "start"
        /\ frames # << >>
        /\ data' = frames[1].values
        /\ match' = frames[2].values
        /\ IF of_data.outcome[1] = "exception"
           THEN /\ frames' = of_data.heap
                /\ pc' = "preprocess_raised"
                /\ UNCHANGED <<match_norm_series, match_original_series, data_norm_series,
                               data_original_series, data_norm_array_lower, vectorizer,
                               data_vectors, match_vectors, indices, prep_calls>>
           ELSE IF of_match.outcome[1] = "exception"
           THEN /\ frames' = of_match.heap
                /\ pc' = "preprocess_raised"
                /\ UNCHANGED <<match_norm_series, match_original_series, data_norm_series,
                               data_original_series, data_norm_array_lower, vectorizer,
                               data_vectors, match_vectors, indices, prep_calls>>
           ELSE /\ frames' = of_match.heap
                /\ CASE ALGORITHM = "levenshtein" -> levenshtein_prep_(prep_data, prep_match)
                     [] ALGORITHM = "jaccard" -> jaccard_prep_(prep_data, prep_match)
                     [] ALGORITHM \in {"dice", "ngram"} -> ngrams_prep_(prep_data, prep_match)
                     [] ALGORITHM = "regex" -> regex_prep_(prep_data, prep_match)
                /\ prep_calls' = Append(prep_calls, prep_outcome(pc'))
        /\ UNCHANGED <<ALGORITHM, futures, results, result_idx, printed, task_printed, raising, results_df>>
        /\ UNCHANGED <<evaluation_vars, supplied, file_vars>>

\* the index of a supplied table: the default one, or the labels 9, 8, ...
Indexes(n) == {RangeIndex(n), [i \in 1..n |-> 10 - i]}
SuppliedFrames(n) ==
    UNION { {Frame(index, values) : index \in Indexes(Len(values))}
            : values \in SeqsUpTo(FrameCells, n) }

InitFrames ==
    /\ ALGORITHM \in Algorithms
    /\ MatchingUnprepared
    /\ EvaluationNotRun
    /\ \E d \in SuppliedFrames(MaxFrameData), m \in SuppliedFrames(MaxFrameMatch) :
          /\ frames = <<d, m>>
          /\ supplied = <<d, m>>

NextFrames ==
    \/ PreprocessAndPrep
    \/ perform_matching_called
    \/ Submit
    \/ \E i \in 1..Len(futures) : RunTask(i)
    \/ \E i \in 1..Len(futures) : Reraise(i)
    \/ \E i \in 1..Len(futures) : Collect(i)
    \/ Return
    \/ Export

SpecFrames == InitFrames /\ [][NextFrames]_vars

\* ------------------------------------------------------- repeated runs

\* a further prep_ call on the same module, after a run or after a prep_ call
\* that completed or raised; results, results_df and the futures of the run
\* before are locals main.py rebinds
PrepAgain(d, m) ==
    LET prep_data == preprocess(d)
        prep_match == preprocess(m)
    IN  /\ pc \in {"prepared", "prep_raised", "exported"}
        /\ Len(prep_calls) < MaxPrepCalls
        /\ data' = d
        /\ match' = m
        /\ CASE ALGORITHM = "levenshtein" -> levenshtein_prep_(prep_data, prep_match)
             [] ALGORITHM = "jaccard" -> jaccard_prep_(prep_data, prep_match)
             [] ALGORITHM \in {"dice", "ngram"} -> ngrams_prep_(prep_data, prep_match)
             [] ALGORITHM = "regex" -> regex_prep_(prep_data, prep_match)
        /\ prep_calls' = Append(prep_calls, prep_outcome(pc'))
        /\ futures' = << >>
        /\ results' = << >>
        /\ result_idx' = << >>
        /\ printed' = << >>
        /\ task_printed' = << >>
        /\ raising' = {}
        /\ results_df' = None
        \* the file of this iteration has its own path (file and column), not written yet
        /\ await_validation' = None
        /\ UNCHANGED ALGORITHM
        /\ UNCHANGED <<evaluation_vars, frame_vars>>

\* perform_matching called by a caller that caught the exception of prep_
perform_matching_called_after_raise ==
    /\ pc = "prep_raised"
    /\ futures' = << >>
    /\ results' = << >>
    /\ result_idx' = << >>
    /\ pc' = IF Len(indices) = 0 THEN "matching" ELSE "submitting"
    /\ UNCHANGED <<ALGORITHM, data, match, match_norm_series, match_original_series,
                   data_norm_series, data_original_series, data_norm_array_lower,
                   vectorizer, data_vectors, match_vectors, indices, printed, task_printed, raising, results_df>>
    /\ UNCHANGED <<evaluation_vars, frame_vars, history_vars, file_vars>>

NextRuns ==
    \/ pc = "start" /\ \E d \in Tables(MaxRunData), m \in Tables(MaxRunMatch) : Prep(d, m)
    \/ pc # "start" /\ \E d \in Tables(MaxRunData), m \in Tables(MaxRunMatch) : PrepAgain(d, m)
    \/ perform_matching_called
    \/ perform_matching_called_after_raise
    \/ Submit
    \/ \E i \in 1..Len(futures) : RunTask(i)
    \/ \E i \in 1..Len(futures) : Reraise(i)
    \/ \E i \in 1..Len(futures) : Collect(i)
    \/ Return
    \/ Export

SpecRuns == Init /\ [][NextRuns]_vars

\* ================================================================ claims

Prepared == pc \in {"prepared", "submitting", "matching", "matched", "exported", "export_raised"}
Queries == IF indices = None THEN {} ELSE 1..Len(indices)
References == IF data_original_series = None THEN {} ELSE 1..Len(data_original_series)
\* the normalized texts preprocess hands to prep_
QueryNorm(idx) == preprocess(match).norm[idx]
ReferenceNorm(r) == preprocess(data).norm[r]
Range(seq) == {seq[k] : k \in 1..Len(seq)}
Occurrences(seq, x) == Cardinality({k \in 1..Len(seq) : seq[k] = x})
\* the tasks of perform_matching that raised
RaisedTasks == {i \in 1..Len(futures) :
                  futures[i].outcome # None /\ Val(futures[i].outcome)[1] = "exception"}

\* the task of query idx gets as far as scoring the query against the corpus
Scored(idx) ==
    CASE ALGORITHM \in {"levenshtein", "jaccard"} -> strip(match_norm_series[idx]) # << >>
      [] ALGORITHM \in {"dice", "ngram"} -> nnz(Val(match_vectors)[idx]) # 0
      [] ALGORITHM = "regex" -> TRUE
\* the scores that task computes, one per reference record (containment: 1 or 0)
ScoresOf(idx) ==
    CASE ALGORITHM = "levenshtein" ->
            levenshtein_scores(strip(match_norm_series[idx]), data_norm_series)
      [] ALGORITHM = "jaccard" ->
            jaccard_similarities(transform("word", TRUE, Val(vectorizer),
                                           strip(match_norm_series[idx])))
      [] ALGORITHM = "dice" -> dice_coefficient(Val(match_vectors)[idx], data_vectors)
      [] ALGORITHM = "ngram" -> ngram_similarity(Val(match_vectors)[idx], data_vectors)
      [] ALGORITHM = "regex" ->
            [r \in 1..Len(data_original_series) |->
                IF regex_mask(match_norm_series[idx])[r] THEN Fin(1, 1) ELSE Fin(0, 1)]
\* the denominator of the score of (idx, r) in the three overlap algorithms
DenominatorOf(idx, r) ==
    CASE ALGORITHM = "jaccard" ->
            jaccard_union(transform("word", TRUE, Val(vectorizer),
                                    strip(match_norm_series[idx])), data_vectors[r])
      [] ALGORITHM = "dice" -> dice_denominator(Val(match_vectors)[idx], data_vectors[r])
      [] ALGORITHM = "ngram" -> ngram_union(Val(match_vectors)[idx], data_vectors[r])
IsZero(x) == x.k = "fin" /\ x.n = 0
InUnitInterval(x) == x.k = "fin" /\ 0 <= x.n /\ x.n <= x.d

\* C1: the list perform_matching returns is in query input order: its k-th record
\* is the record of the k-th query (of those that produced a record), whatever
\* the order in which the tasks completed.
C1_InputOrder ==
    pc = "matched" =>
        result_idx = SelectSeq(indices, LAMBDA i : i \notin Range(printed))

\* C2: after prep_ and perform_matching the number of records is the number of
\* query rows minus the number of tasks that raised, and every query whose task
\* did not raise contributes exactly one record, no other index any.
C2_RowCount ==
    pc = "matched" =>
        /\ Len(results) = Len(match) - Cardinality(RaisedTasks)
        /\ Len(result_idx) = Len(results)
        /\ \A i \in 1..Len(match) :
              Occurrences(result_idx, i) = IF i \in RaisedTasks THEN 0 ELSE 1
        /\ Range(result_idx) \subseteq 1..Len(match)
C2_Witness ==
    /\ pc = "matched"
    /\ Len(match) = 2
    /\ Cardinality(RaisedTasks) = 1
    /\ Len(results) = 1

\* C3: a task that raises is reported once with its query index and gives no
\* record, is not run again, and the records of the other queries are returned;
\* perform_matching itself does not raise.
C3_FailureIsolated ==
    /\ pc # "perform_matching_raised"
    /\ pc = "matched" =>
          \A i \in 1..Len(futures) :
              /\ futures[i].state = "yielded"
              /\ i \in RaisedTasks =>
                    /\ Occurrences(printed, indices[i]) = 1
                    /\ Occurrences(result_idx, indices[i]) = 0
              /\ i \notin RaisedTasks =>
                    /\ Occurrences(printed, indices[i]) = 0
                    /\ \E k \in 1..Len(results) :
                          /\ result_idx[k] = indices[i]
                          /\ results[k] = Val(futures[i].outcome)[2]
C3_Witness ==
    /\ pc = "matched"
    /\ ALGORITHM = "ngram"
    /\ printed = <<2>>
    /\ result_idx = <<1>>

\* C4: under every algorithm a query whose normalized text is empty gets a record
\* without best match and without score (for containment: the score false), and
\* is not accepted.
C4_EmptyQueryNoMatch ==
    pc = "exported" =>
        \A k \in 1..Len(Val(results_df)) :
            QueryNorm(result_idx[k]) = << >> =>
                /\ Val(results_df)[k][prefixed("BEST_FOUND_MATCH")] = None
                /\ Val(results_df)[k][prefixed("BEST_MATCH")] =
                      IF ALGORITHM = "regex" THEN Some(FALSE) ELSE None
                /\ Val(results_df)[k][prefixed("BEST_MATCH_BINARY")] = FALSE

\* C5: with an empty reference corpus or an empty query set nothing raises, and
\* every query is reported with a record without best match.
C5_EmptyInputNoMatch ==
    (pc # "start" /\ (data = << >> \/ match = << >>)) =>
        /\ pc \notin {"prep_raised", "export_raised"}
        /\ printed = << >>
        /\ pc \in {"matched", "exported"} =>
              /\ Range(result_idx) = 1..Len(match)
              /\ \A k \in 1..Len(results) : results[k].BEST_FOUND_MATCH = None

\* C6: every score computed for a query and a reference record lies in [0, 1].
C6_ScoreInUnitInterval ==
    Prepared =>
        \A idx \in Queries :
            Scored(idx) => \A r \in References : InUnitInterval(ScoresOf(idx)[r])

\* C7: in the Jaccard, Dice and n-gram computations a score whose denominator
\* is 0 is exactly 0.
C7_ZeroDenominatorIsZero ==
    (Prepared /\ ALGORITHM \in {"jaccard", "dice", "ngram"}) =>
        \A idx \in Queries :
            Scored(idx) =>
                \A r \in References :
                    DenominatorOf(idx, r) = 0 => IsZero(ScoresOf(idx)[r])

\* C8: the score of a pair is 0 (false for containment) whenever the normalized
\* query or the normalized reference record is empty.
C8_EmptyTextScoresZero ==
    Prepared =>
        \A idx \in Queries :
            Scored(idx) =>
                \A r \in References :
                    (QueryNorm(idx) = << >> \/ ReferenceNorm(r) = << >>)
                        => IsZero(ScoresOf(idx)[r])

\* C9: a reported best match is a reference record whose score is maximal over
\* the corpus, the one of lowest index among those of maximal score.
C9_BestIsFirstMaximum ==
    pc = "matched" =>
        \A k \in 1..Len(results) :
            results[k].BEST_FOUND_MATCH # None =>
                LET scores == ScoresOf(result_idx[k])
                IN  \E r \in References :
                        /\ \A j \in References : ~FLt(scores[r], scores[j])
                        /\ \A j \in 1..(r - 1) : FLt(scores[j], scores[r])
                        /\ results[k].BEST_FOUND_MATCH = Some(data_original_series[r])
                        /\ ALGORITHM # "regex" => results[k].BEST_MATCH = Some(scores[r])
                        /\ ALGORITHM = "regex" =>
                              (results[k].BEST_MATCH = Some(TRUE) /\ scores[r] = Fin(1, 1))
\* a query of the overlap algorithms whose best score two different records share
C9_Witness ==
    /\ pc = "matched"
    /\ ALGORITHM \in {"jaccard", "dice", "ngram"}
    /\ \E k \in 1..Len(results) :
          /\ results[k].BEST_FOUND_MATCH # None
          /\ LET scores == ScoresOf(result_idx[k])
             IN  /\ Len(scores) = 2
                 /\ FEq(scores[1], scores[2])
                 /\ data_original_series[1] # data_original_series[2]
                 /\ results[k].BEST_FOUND_MATCH = Some(data_original_series[1])

\* C10: export_results sets BEST_MATCH_BINARY to (BEST_MATCH >= threshold of the
\* algorithm): 0.8 for levenshtein, 0.5 for the others; a row without score is
\* not accepted; for containment a true score is accepted and a false one is not.
C10_Classified ==
    pc = "exported" =>
        /\ Len(Val(results_df)) = Len(results)
        /\ \A k \in 1..Len(results) :
              LET row == Val(results_df)[k]
                  score == Val(results[k].BEST_MATCH)
              IN  /\ row[prefixed("BEST_MATCH")] = results[k].BEST_MATCH
                  /\ row[prefixed("BEST_MATCH_BINARY")] =
                        IF results[k].BEST_MATCH = None THEN FALSE
                        ELSE IF ALGORITHM = "regex" THEN score
                        ELSE IF score.k = "max" THEN score.n = 1
                        ELSE IF ALGORITHM = "levenshtein" THEN 5 * score.n >= 4 * score.d
                        ELSE 2 * score.n >= score.d
C10_Witness ==
    /\ pc = "exported"
    /\ ALGORITHM = "levenshtein"
    /\ \E k \in 1..Len(Val(results_df)) :
          /\ Val(results_df)[k][prefixed("BEST_MATCH")] = None
          /\ Val(results_df)[k][prefixed("BEST_MATCH_BINARY")] = FALSE
    /\ \E k \in 1..Len(Val(results_df)) :
          /\ Val(results_df)[k][prefixed("BEST_MATCH")] # None
          /\ Val(results_df)[k][prefixed("BEST_MATCH_BINARY")] = TRUE

\* C11: normalization is idempotent: normalizing the normalized text of any row
\* of the two tables gives that normalized text again.
C11_NormalizeIdempotent ==
    pc # "start" =>
        /\ \A idx \in 1..Len(match) : normalize_text(QueryNorm(idx)) = QueryNorm(idx)
        /\ \A r \in 1..Len(data) : normalize_text(ReferenceNorm(r)) = ReferenceNorm(r)

\* C12: corpus ["Schlossstrasse", "Goethestrasse"], query ["Schlossstr."] under
\* levenshtein: the exported row has best match "Schlossstrasse", the score
\* 1 - distance / max(len) of the normalized texts, which is at least 0.8, and
\* BEST_MATCH_BINARY true.
C12_SchlossstrScenario ==
    (/\ pc = "exported"
     /\ ALGORITHM = "levenshtein"
     /\ data = <<Some(Schlossstrasse), Some(Goethestrasse)>>
     /\ match = <<Some(Schlossstr_dot)>>) =>
        LET row == Val(results_df)[1]
            q == QueryNorm(1)
            r == ReferenceNorm(1)
        IN  /\ Len(Val(results_df)) = 1
            /\ row[prefixed("BEST_FOUND_MATCH")] = Some(Schlossstrasse)
            /\ row[prefixed("BEST_MATCH")] # None
            /\ FEq(Val(row[prefixed("BEST_MATCH")]),
                   Fin(Max(Len(q), Len(r)) - LevenshteinDistance(q, r), Max(Len(q), Len(r))))
            /\ FGe(Val(row[prefixed("BEST_MATCH")]), Fin(4, 5))
            /\ row[prefixed("BEST_MATCH_BINARY")] = TRUE

\* C13: corpus ["Hauptstrasze 1" with sharp s], query ["Hauptstrasse Eins"] under
\* jaccard: the texts compared are "hauptstrasse 1" and "hauptstrasse eins" and
\* the score reported is 1/3.
C13_HauptstrasseScenario ==
    (/\ pc = "matched"
     /\ ALGORITHM = "jaccard"
     /\ data = <<Some(Hauptstrasze_1)>>
     /\ match = <<Some(Hauptstrasse_Eins)>>) =>
        /\ ReferenceNorm(1) = lower(Hauptstrasse) \o <<" ", "1">>
        /\ QueryNorm(1) = lower(Hauptstrasse_Eins)
        /\ Len(results) = 1
        /\ results[1].BEST_MATCH # None
        /\ FEq(Val(results[1].BEST_MATCH), Fin(1, 3))

\* C14: under jaccard a query and a reference record that normalize to the same
\* non-empty text score 1.0.
C14_JaccardIdenticalIsOne ==
    (Prepared /\ ALGORITHM = "jaccard") =>
        \A idx \in Queries : \A r \in References :
            (QueryNorm(idx) = ReferenceNorm(r) /\ QueryNorm(idx) # << >>) =>
                /\ Scored(idx)
                /\ FEq(ScoresOf(idx)[r], Fin(1, 1))

\* the tokens of a normalized text: its maximal runs of non-space characters (a
\* normalized text holds word characters and white space only)
TokenSet(s) == Range(word_runs(s, << >>))
\* |A \cap B| / |A \cup B|, 0 for an empty union
JaccardOfSets(A, B) ==
    IF A \cup B = {} THEN Fin(0, 1)
    ELSE Fin(Cardinality(A \cap B), Cardinality(A \cup B))

\* C15: the jaccard score of a query and a reference record is
\* |T(q) \cap T(r)| / |T(q) \cup T(r)| over all tokens of the two normalized
\* texts: a token of the query counts in the union whether or not a reference
\* record holds it, as with vectors over a vocabulary of corpus and query set.
C15_JaccardOverAllTokens ==
    (pc = "matched" /\ ALGORITHM = "jaccard") =>
        \A idx \in Queries : \A r \in References :
            Scored(idx) =>
                FEq(ScoresOf(idx)[r],
                    JaccardOfSets(TokenSet(QueryNorm(idx)), TokenSet(ReferenceNorm(r))))

\* the reference records whose normalized text contains the normalized text of
\* query idx or is contained in it, letter case ignored
Containing(idx) ==
    {r \in 1..Len(data) :
        \/ Contains(lower(ReferenceNorm(r)), lower(QueryNorm(idx)))
        \/ Contains(lower(QueryNorm(idx)), lower(ReferenceNorm(r)))}
Lowest(S) == CHOOSE x \in S : \A y \in S : x <= y

\* C16: under regex the score of a query is true exactly when some reference
\* record contains the query or is contained in it (normalized texts); the best
\* match is then the original text of the lowest such record, and absent when
\* the score is false.
C16_Containment ==
    (pc = "matched" /\ ALGORITHM = "regex") =>
        \A k \in 1..Len(results) :
            LET found == Containing(result_idx[k])
            IN  /\ results[k].BEST_MATCH = Some(found # {})
                /\ results[k].BEST_FOUND_MATCH =
                      IF found = {} THEN None
                      ELSE Some(preprocess(data).orig[Lowest(found)])
\* a query that only the second record matches, and only by being contained in
\* the query
C16_Witness ==
    /\ pc = "matched"
    /\ ALGORITHM = "regex"
    /\ Len(data) = 2
    /\ \E k \in 1..Len(results) :
          /\ Containing(result_idx[k]) = {2}
          /\ ~Contains(ReferenceNorm(2), QueryNorm(result_idx[k]))
          /\ results[k].BEST_FOUND_MATCH = Some(data_original_series[2])

\* C17: the levenshtein score is symmetric: the score computed for a query q
\* against a reference record r equals the score of r against q, both being
\* 1 - distance / max(len(q), len(r)).
C17_LevenshteinSymmetric ==
    (Prepared /\ ALGORITHM = "levenshtein") =>
        \A idx \in Queries : \A r \in References :
            LET q == strip(match_norm_series[idx])
                t == data_norm_series[r]
                longer == Max(Len(q), Len(t))
            IN  /\ FEq(levenshtein_scores(q, data_norm_series)[r],
                       levenshtein_scores(t, <<q>>)[1])
                /\ longer > 0 =>
                      /\ FEq(levenshtein_scores(q, data_norm_series)[r],
                             Fin(longer - LevenshteinDistance(q, t), longer))
                      /\ FEq(levenshtein_scores(t, <<q>>)[1],
                             Fin(longer - LevenshteinDistance(t, q), longer))
\* a query and a reference record of different lengths, neither a prefix of the
\* other, with a score strictly between 0 and 1
C17_Witness ==
    /\ Prepared
    /\ ALGORITHM = "levenshtein"
    /\ \E idx \in Queries : \E r \in References :
          LET q == strip(match_norm_series[idx])
              t == data_norm_series[r]
              score == levenshtein_scores(q, data_norm_series)[r]
          IN  /\ Len(q) < Len(t)
              /\ ~IsPrefix(q, t)
              /\ FLt(Fin(0, 1), score)
              /\ FLt(score, Fin(1, 1))

\* thresholds to compare: 0, the two configured values 0.5 and 0.8, and 1
ThresholdValues == {Fin(0, 1), Fin(1, 2), Fin(4, 5), Fin(1, 1)}
\* the rows of the result list that BEST_MATCH >= t accepts
Accepted(t) == {k \in 1..Len(results) : ge_threshold(results[k].BEST_MATCH, t)}

\* C18: for the result list of a run and thresholds t1 <= t2, the rows accepted
\* at t2 are among the rows accepted at t1; the rows export_results accepts are
\* those accepted at the configured threshold of the algorithm.
C18_ThresholdMonotonic ==
    pc \in {"matched", "exported"} =>
        /\ \A t1 \in ThresholdValues, t2 \in ThresholdValues :
              FGe(t2, t1) => Accepted(t2) \subseteq Accepted(t1)
        /\ pc = "exported" =>
              {k \in 1..Len(Val(results_df)) : Val(results_df)[k][prefixed("BEST_MATCH_BINARY")]}
                  = Accepted(THRESHOLDS[ALGORITHM])
\* a run with a row accepted at 0.5 and rejected at 0.8, and a row without score
C18_Witness ==
    /\ pc = "exported"
    /\ \E k \in 1..Len(results) :
          k \in Accepted(Fin(1, 2)) /\ k \notin Accepted(Fin(4, 5))
    /\ \E k \in 1..Len(results) : results[k].BEST_MATCH = None

\* ------------------------------------------------- claims on the evaluator

\* DATA and eval_df are those of the dataset under evaluation
Evaluating == eval_pc \in {"metrics", "export", "confusion"}
HasColumns(df, a) == {y_true_col(a), y_pred_col(a)} \subseteq DOMAIN df.columns
EvaluatedAlgorithms == {THRESHOLDS_keys[i] : i \in 1..Len(THRESHOLDS_keys)}
AlgoIndex(a) == CHOOSE i \in 1..Len(THRESHOLDS_keys) : THRESHOLDS_keys[i] = a
\* the pass of the metrics loop, of the confusion-matrix loop, for a is over
MetricsPassed(a) ==
    eval_pc \in {"export", "confusion"} \/ (eval_pc = "metrics" /\ AlgoIndex(a) < algo)
ConfusionPassed(a) == eval_pc = "confusion" /\ AlgoIndex(a) < algo
\* the rows of df in which the ground truth and the prediction of a are present
PresentRows(df, a) ==
    {i \in 1..df.len : /\ df.columns[y_true_col(a)].values[i] # NaN
                       /\ df.columns[y_pred_col(a)].values[i] # NaN}
\* df with the other rows removed beforehand (df[...], the dtypes kept)
WithoutMissing(df, a) ==
    LET kept == SelectSeq([i \in 1..df.len |-> i], LAMBDA i : i \in PresentRows(df, a))
    IN  [len |-> Len(kept),
         columns |-> [c \in DOMAIN df.columns |->
                        [dtype |-> df.columns[c].dtype,
                         values |-> [k \in 1..Len(kept) |-> df.columns[c].values[kept[k]]]]]]
\* what the metrics loop makes of the columns of a
MetricsOutcome(df, a, one_class) ==
    LET checked == binary_labels(df, a)
    IN  IF checked[1] = "skip" THEN checked
        ELSE metric_scores(checked[2], checked[3], one_class)

\* C19: the metrics and the confusion matrix of an algorithm are those of the
\* table with the rows removed beforehand in which its ground truth or its
\* prediction is missing: the loops retain the same labels from the two tables,
\* as many rows are scored as have both, and what is stored is what the
\* filtered table gives.
C19_MissingRowsExcluded ==
    Evaluating =>
        \A a \in {b \in EvaluatedAlgorithms : HasColumns(DATA, b)} :
            LET name == datasets[dataset_name]
                of_filtered == binary_labels(WithoutMissing(DATA, a), a)
            IN  /\ binary_labels(DATA, a) = of_filtered
                /\ a \in DOMAIN eval_df =>
                      /\ of_filtered[1] = "labels"
                      /\ <<"result", eval_df[a]>>
                            = metric_scores(of_filtered[2], of_filtered[3], "nan")
                      /\ eval_df[a].Accuracy.d = Cardinality(PresentRows(DATA, a))
                /\ <<a, name>> \in DOMAIN confusion_matrices =>
                      /\ of_filtered[1] = "labels"
                      /\ <<"result", confusion_matrices[<<a, name>>]>>
                            = confusion_matrix(of_filtered[2], of_filtered[3])
\* regex is scored on two of three rows, the third lacking its ground truth
\* (or its prediction), and its confusion matrix is written
C19_Witness ==
    /\ eval_pc = "confusion"
    /\ DATA.len = 3
    /\ Cardinality(PresentRows(DATA, "regex")) = 2
    /\ "regex" \in DOMAIN eval_df
    /\ eval_df["regex"].ROC_AUC.k = "fin"
    /\ <<"regex", datasets[dataset_name]>> \in DOMAIN confusion_matrices

\* a textual label coerced by truthiness, the falsy texts "0" and "False" (and
\* the empty text) counting as 0
CoercedLabel(cell) ==
    IF cell[1] = "str"
    THEN LabelBool(IF cell[2] \in {"", "0", "False"} THEN 0 ELSE 1)
    ELSE cell
\* some retained label of a, coerced so, is not in {0, 1}
OutsideLabelDomain(df, a) ==
    \E r \in PresentRows(df, a) : \E c \in {y_true_col(a), y_pred_col(a)} :
        ~in_valid_labels(CoercedLabel(df.columns[c].values[r]))

\* C20: an algorithm whose retained ground-truth or prediction labels are not
\* all in {0, 1} (textual labels coerced by truthiness, falsy texts being 0)
\* gets no metrics column and no confusion matrix for the dataset; the
\* algorithms after it are still evaluated.
C20_LabelDomainSkipped ==
    Evaluating =>
        \A i \in 1..Len(THRESHOLDS_keys) :
            LET a == THRESHOLDS_keys[i]
                name == datasets[dataset_name]
            IN  (HasColumns(DATA, a) /\ OutsideLabelDomain(DATA, a)) =>
                    /\ a \notin DOMAIN eval_df
                    /\ <<a, name>> \notin DOMAIN confusion_matrices
                    /\ \A j \in (i + 1)..Len(THRESHOLDS_keys) :
                          LET b == THRESHOLDS_keys[j]
                          IN  (/\ MetricsPassed(b)
                               /\ HasColumns(DATA, b)
                               /\ MetricsOutcome(DATA, b, "raise")[1] = "result")
                                  => b \in DOMAIN eval_df

\* C21: an error local to one algorithm/dataset pair (missing columns, no valid
\* rows, a scoring failure such as one class among the retained labels) never
\* aborts the evaluation run: no exception leaves the two loops, and a pair the
\* metrics loop has skipped is reported.
C21_PairErrorContained ==
    /\ eval_pc # "raised"
    /\ eval_pc = "metrics" =>
          \A a \in {b \in EvaluatedAlgorithms : AlgoIndex(b) < algo} :
              binary_labels(DATA, a)[1] = "skip" =>
                  <<binary_labels(DATA, a)[2], a, datasets[dataset_name]>>
                      \in Range(eval_printed)

\* "dr muellerstrasse 123" and "hauptstrasse 1"
dr_muellerstrasse_123 ==
    <<"d", "r", " ", "m", "u", "e", "l", "l", "e", "r", "s", "t", "r", "a", "s", "s",
      "e", " ", "1", "2", "3">>
hauptstrasse_1 ==
    <<"h", "a", "u", "p", "t", "s", "t", "r", "a", "s", "s", "e", " ", "1">>
\* the spelling of a text with "ss" for every sharp s
ss_spelling(t) == re_sub(<<"eszett">>, <<"s", "s">>, t)
\* the canonical form of the text of a cell
CanonicalForm(cell, norm) ==
    /\ cell = Some(Dr_Mueller_Strasze_123) => norm = dr_muellerstrasse_123
    /\ cell = Some(Hauptstrasze_1) => norm = hauptstrasse_1
    /\ cell # NaN => norm = normalize_text(ss_spelling(Val(cell)))

\* C22: the normalized text of "Dr. Müller-Straße 123" is "dr muellerstrasse 123"
\* and that of "Hauptstraße 1" is "hauptstrasse 1"; a text spelt with sharp s
\* and the same text spelt with "ss" have the same normalized text.
C22_CanonicalForm ==
    pc # "start" =>
        /\ \A idx \in 1..Len(match) : CanonicalForm(match[idx], QueryNorm(idx))
        /\ \A r \in 1..Len(data) : CanonicalForm(data[r], ReferenceNorm(r))

\* C23: preprocess raises for no cell value of the compared column: for a text,
\* the empty text, a missing value and a value that is no text it returns one
\* normalized text per row, the empty text for a missing value.
C23_NormalizationTotal ==
    pc # "start" =>
        /\ pc # "preprocess_raised"
        /\ \A id \in 1..Len(supplied) :
              LET outcome == preprocess_frame(supplied, id).outcome
                  values == supplied[id].values
              IN  /\ outcome[1] = "result"
                  /\ Len(outcome[2].norm) = Len(values)
                  /\ \A i \in 1..Len(values) :
                        values[i] = NaN => outcome[2].norm[i] = << >>

\* C26: preprocess, prep_, perform_matching and export_results leave the two
\* supplied table objects as they were handed over: the same index labels and
\* the same cells, the missing values still missing.
C26_SuppliedTablesUnchanged ==
    /\ Len(frames) >= Len(supplied)
    /\ \A id \in 1..Len(supplied) : frames[id] = supplied[id]
\* a run to the end on a query table with a missing value and an index of its
\* own, the copies of preprocess made
C26_Witness ==
    /\ pc = "exported"
    /\ Len(frames) = 6
    /\ supplied[2].index = <<9, 8>>
    /\ supplied[2].values[1] = NaN
    /\ frames[6].index = <<1, 2>>
    /\ frames[6].values[1] = Some(<< >>)

\* the module-level working data prep_ sets
working_data ==
    <<match_norm_series, match_original_series, data_norm_series, data_original_series,
      data_norm_array_lower, vectorizer, data_vectors, match_vectors, indices>>

\* C24: from the call of perform_matching to its return no step (the call, a
\* submission, a worker task run between two submissions or during the
\* collecting loop, a pass of that loop) changes the module-level working data
\* set by prep_, in whatever order the tasks are submitted, run and complete;
\* the results list and the futures are all that changes, and the lines the
\* functions print.
C24_NoSharedWrite ==
    [][(pc \in {"prepared", "submitting", "matching"}) =>
          /\ UNCHANGED working_data
          /\ UNCHANGED <<ALGORITHM, data, match, results_df>>]_vars
\* a worker has run the task of the first query to its end while the task of
\* the second query is not submitted yet
C24_Witness ==
    /\ pc = "submitting"
    /\ indices = <<1, 2>>
    /\ Len(futures) = 1
    /\ futures[1].state = "finished"
    /\ match_original_series # << << >>, << >> >>

\* the latest prep_ call completed and its data are in use
LatestPrepCompleted ==
    /\ prep_calls # << >>
    /\ prep_calls[Len(prep_calls)] = "completed"
    /\ pc \in {"prepared", "submitting", "matching", "matched", "exported", "export_raised"}

\* C25: after prep_ calls that completed, the module works on the data of the
\* latest call alone: the working data are those a first call with the latest
\* tables gives, every returned MATCH is a query of the latest query table and
\* every BEST_FOUND_MATCH a record of the latest reference table.
C25_LatestPrepOnly ==
    LatestPrepCompleted =>
        LET prep_data == preprocess(data)
            prep_match == preprocess(match)
            bigrams == fit("char", prep_data.norm \o prep_match.norm)
        IN  /\ indices = index_tolist(prep_match.df)
            /\ match_original_series = prep_match.orig
            /\ data_original_series = prep_data.orig
            /\ ALGORITHM \in {"levenshtein", "regex"} =>
                  /\ data_norm_series = prep_data.norm
                  /\ match_norm_series = prep_match.norm
            /\ ALGORITHM = "regex" =>
                  data_norm_array_lower = [r \in 1..Len(data) |-> lower(prep_data.norm[r])]
            /\ ALGORITHM = "jaccard" =>
                  /\ match_norm_series = prep_match.norm
                  /\ vectorizer = fit("word", prep_data.norm)
                  /\ data_vectors = transform_all("word", TRUE, Val(vectorizer), prep_data.norm)
            /\ ALGORITHM \in {"dice", "ngram"} =>
                  /\ data_vectors = transform_all("char", FALSE, Val(bigrams), prep_data.norm)
                  /\ match_vectors =
                        Some(transform_all("char", FALSE, Val(bigrams), prep_match.norm))
            /\ pc \in {"matched", "exported"} =>
                  \A k \in 1..Len(results) :
                      /\ result_idx[k] \in 1..Len(match)
                      /\ results[k].MATCH = prep_match.orig[result_idx[k]]
                      /\ results[k] = calculate_best_match(result_idx[k])[2]
                      /\ results[k].BEST_FOUND_MATCH # None =>
                            \E r \in 1..Len(data) :
                                results[k].BEST_FOUND_MATCH = Some(prep_data.orig[r])
\* a second prep_ call has completed after a first one and perform_matching has
\* returned a record with a best match
C25_Witness ==
    /\ prep_calls = <<"completed", "completed">>
    /\ pc = "matched"
    /\ ALGORITHM \in {"dice", "ngram"}
    /\ \E k \in 1..Len(results) : results[k].BEST_FOUND_MATCH # None

\* C30: a prep_ call that raises leaves every module-level variable with the
\* value it had before the call.
C30_PrepAllOrNothing ==
    [][(prep_calls' # prep_calls /\ pc' = "prep_raised") => UNCHANGED working_data]_vars

\* the n-gram or token set of a list of texts
Features(kind, docs) ==
    UNION { {analyze(kind, docs[i])[j] : j \in 1..Len(analyze(kind, docs[i]))}
            : i \in 1..Len(docs) }
\* what one query cell gives against a reference table, computed from these two
\* alone: the query is preprocessed and vectorized as if it were the only query
OutcomeAlone(q, d) ==
    LET prep_d == preprocess(d)
        prep_q == preprocess(<<q>>)
        original == prep_q.orig[1]
        norm == prep_q.norm[1]
        refs == 1..Len(d)
        record(scores, r) == MatchRecord(original, Some(prep_d.orig[r]), Some(scores[r]))
        none == Returned(MatchRecord(original, None, None))
        words == Features("word", prep_d.norm)
        word_vector == transform("word", TRUE, words, strip(norm))
        word_vectors == transform_all("word", TRUE, words, prep_d.norm)
        word_scores == [r \in refs |->
                          nan_to_num(TrueDivide(multiply_sum(word_vectors[r], word_vector),
                                                jaccard_union(word_vector, word_vectors[r])))]
        bigrams == Features("char", prep_d.norm \o <<norm>>)
        bigram_vector == transform("char", FALSE, bigrams, norm)
        bigram_vectors == transform_all("char", FALSE, bigrams, prep_d.norm)
        bigram_scores == IF ALGORITHM = "dice"
                         THEN dice_coefficient(bigram_vector, bigram_vectors)
                         ELSE ngram_similarity(bigram_vector, bigram_vectors)
        best == extractOne(strip(norm), prep_d.norm)
        containing == {r \in refs : \/ Contains(lower(prep_d.norm[r]), lower(norm))
                                    \/ Contains(lower(norm), lower(prep_d.norm[r]))}
    IN  CASE ALGORITHM = "levenshtein" ->
                IF strip(norm) = << >> \/ best = None THEN none
                ELSE Returned(MatchRecord(original, Some(prep_d.orig[Val(best)[2]]),
                                          Some(Val(best)[1])))
          [] ALGORITHM = "jaccard" ->
                IF strip(norm) = << >> THEN none
                ELSE IF refs = {} THEN Raised("ValueError")
                ELSE Returned(record(word_scores, argmax(word_scores)))
          [] ALGORITHM \in {"dice", "ngram"} ->
                IF nnz(bigram_vector) = 0 THEN none
                ELSE IF refs = {} THEN Raised("ValueError")
                ELSE Returned(record(bigram_scores, argmax(bigram_scores)))
          [] ALGORITHM = "regex" ->
                IF containing = {} THEN Returned(MatchRecord(original, None, Some(FALSE)))
                ELSE Returned(MatchRecord(original,
                                          Some(prep_d.orig[CHOOSE r \in containing :
                                                             \A o \in containing : r <= o]),
                                          Some(TRUE)))
\* the records perform_matching returned, each with the index of its query
ReturnedRecords == {<<result_idx[k], results[k]>> : k \in 1..Len(results)}

\* C27: for a prepared state the outcome of the task of query i is a function of
\* the text of query i and the reference table alone (the other queries of the
\* table play no part), and in whatever order the tasks ran and completed
\* perform_matching returns the same set of records: for each query whose task
\* did not raise the record of that function, and no other.
C27_RecordPerQuery ==
    /\ \A i \in 1..Len(futures) :
          futures[i].outcome # None =>
              futures[i].outcome = Some(OutcomeAlone(match[indices[i]], data))
    /\ pc = "matched" =>
          ReturnedRecords =
              {<<i, OutcomeAlone(match[i], data)[2]>> :
                  i \in {j \in 1..Len(match) : OutcomeAlone(match[j], data)[1] = "result"}}
\* perform_matching has returned the records of two different queries with a best
\* match each, the task of the second query having completed first
C27_Witness ==
    /\ pc = "matched"
    /\ ALGORITHM \in {"dice", "ngram"}
    /\ result_idx = <<2, 1>>
    /\ match[1] # match[2]
    /\ results[1].BEST_FOUND_MATCH # None
    /\ results[2].BEST_FOUND_MATCH # None
    /\ results[1].BEST_MATCH # results[2].BEST_MATCH
    \* the first query brings n-grams neither the corpus nor the second query has
    /\ Features("char", preprocess(data).norm \o <<QueryNorm(2)>>)
           # Features("char", preprocess(data).norm \o preprocess(match).norm)

\* perform_matching returns once it is called, given that every task terminates
perform_matching_returns == (pc \in {"submitting", "matching"}) ~> (pc = "matched")
\* at the return every index was submitted and its future yielded by as_completed
AllTasksCompleted ==
    pc = "matched" =>
        /\ Len(futures) = Len(indices)
        /\ \A i \in 1..Len(futures) : futures[i].state = "yielded"
\* the lines printed for a query index: by the loop of perform_matching and by
\* the task itself
Reports(idx) == Occurrences(printed, idx) + Occurrences(task_printed, idx)

\* C28: once perform_matching is called it returns, given that every task
\* terminates; and when it has returned no submitted task is pending or
\* running: every future was yielded by as_completed, and each submitted query
\* index has given exactly one record or had exactly one exception report
\* printed, never both and never more.
C28_ReturnsAfterAllTasks ==
    /\ perform_matching_returns
    /\ []AllTasksCompleted
    /\ [](pc = "matched" =>
            \A i \in 1..Len(indices) :
                Occurrences(result_idx, indices[i]) + Reports(indices[i]) = 1)

\* the records the tasks have returned so far, collected or not
ProducedRecords ==
    {Val(futures[i].outcome)[2] :
        i \in {j \in 1..Len(futures) :
                 futures[j].outcome # None /\ Val(futures[j].outcome)[1] = "result"}}
    \cup Range(results)

\* C29: in every record of the edit-distance, Jaccard, Dice and n-gram modules
\* the best found match is absent exactly when the score is absent, and the
\* true match is absent; in every record of the containment module the score
\* is present (a boolean) and the best found match is absent exactly when the
\* score is false.
C29_RecordShape ==
    \A rec \in ProducedRecords :
        IF ALGORITHM = "regex"
        THEN /\ rec.BEST_MATCH # None
             /\ Val(rec.BEST_MATCH) \in BOOLEAN
             /\ (rec.BEST_FOUND_MATCH = None) <=> (rec.BEST_MATCH = Some(FALSE))
        ELSE /\ (rec.BEST_FOUND_MATCH = None) <=> (rec.BEST_MATCH = None)
             /\ rec.TRUE_MATCH = None
\* an edit-distance run has returned a record without match and without score
\* for a missing query, and for the other query a record whose best found match
\* is the empty text of a missing reference record, with its score
C29_Witness ==
    /\ pc = "matched"
    /\ ALGORITHM = "levenshtein"
    /\ \E k \in 1..Len(results) :
          results[k].BEST_FOUND_MATCH = None /\ results[k].BEST_MATCH = None
    /\ \E k \in 1..Len(results) :
          results[k].BEST_FOUND_MATCH = Some(<< >>) /\ results[k].BEST_MATCH # None

====
